---- MODULE Spec2Model ----
(***************************************************************************)
(* Model of quick_contrast, the contrast estimator defined in              *)
(* notebooks/miri_photon_noise_and_contrast.ipynb (lines 510-538) and, in  *)
(* an identical copy, in notebooks/nircam_photon_noise_and_contrast.ipynb  *)
(* (lines 522-550), together with the caller that invokes it repeatedly.   *)
(*                                                                         *)
(* Numbers.  Pixel values are integers.  Every real number the function    *)
(* computes is kept exactly:                                               *)
(*   - a radial distance r is stored as the integer 4*r^2                  *)
(*     (center = shape/2, so 2*(index - center) is an integer);            *)
(*   - a bin edge e is stored as the fraction num/den = 4*e^2;             *)
(*   - a contrast value std/norm is stored as sign * sqrt(num/den) with    *)
(*     num/den in lowest terms, or as inf / nan when norm = 0.             *)
(* scipy.signal.fftconvolve is modelled as the convolution it computes     *)
(* (floating-point round-off of the FFT is not represented), with the      *)
(* 'valid'-mode shape rules of scipy >= 0.19 and the boolean-mask shape    *)
(* rule of numpy >= 1.13.  np.digitize compares a radius with an edge as   *)
(* exact reals: a radius mathematically equal to an edge counts as on or   *)
(* above it.                                                               *)
(***************************************************************************)
EXTENDS Integers, Sequences, FiniteSets, TLC

\* ---- bounds of the explored inputs ------------------------------------
MaxDim == 7
MaxVal == 1
MaxAnnuli == 4
MaxScale == 2
\* value of the one bright pixel of an input image
HotVal == 10

\* ---- constants of the program -----------------------------------------
\* side of the aperture kernel (a 5x5 array literal)
KernelSize == 5

VARIABLES
    occulted_image,    \* argument
    unocculted_image,  \* argument
    n_annuli,          \* argument
    pc,                \* position inside quick_contrast
    unocc_aperture,    \* local: convolved unocculted image
    norm,              \* local: normalization constant
    occ_aperture,      \* local: convolved occulted image
    radial,            \* local: 4 * (radial distance)^2 of every grid pixel
    radial_bins,       \* local: bin edges
    annuli_inds,       \* local: bin index of every grid pixel
    contrast,          \* local: contrast values
    result,            \* the pair handed back to the caller
    error,             \* exception that ended the call, or "none"
    prev_result,       \* caller: the pair returned by the preceding call
    ncalls,            \* caller: number of calls started
    scale,             \* caller: factor applied to both images of this call
    notebook,          \* notebook being run: "miri", "nircam" or "none"
    cell,              \* position inside the notebook
    options,           \* pancake.engine.options: the global options
    backup,            \* the single internal backup of options (<<>>: empty)
    heap,              \* the Python objects, indexed by reference
    bracket_open,      \* save_options() was called and not yet restored
    saved_at,          \* the options as they were at that save_options()
    config,            \* the base calculation dictionary
    occulted,          \* calculation dictionary of the occulted star
    unocculted,        \* calculation dictionary of the unocculted star
    current_config,    \* calculation dictionary of the ngroup sweep
    ngroup,            \* loop variable of the contrast loop
    engine_call,       \* the most recent call of the engine
    occ_slope,         \* loop: detector image of the occulted target
    unocc_slope,       \* loop: detector image of the unocculted target
    ref_slope,         \* loop: detector image of the reference
    ref_sub,           \* loop: reference-subtracted image
    qc_call,           \* the images of the most recent quick_contrast call
    sgds,              \* dither notebook: the dither points
    sgd_configs,       \* dither notebook: the list of SGD calculations
    initial_options,   \* dither notebook: options read when the cell starts
    otf_options,       \* dither notebook: options read after the changes
    otf_targ_results,  \* dither notebook: result of the target calculation
    otf_sgd_results,   \* dither notebook: results of the SGD calculations
    scene_nb,          \* scene construction: the notebook, or "none"
    scene_cell,        \* scene construction: position inside the notebook
    scene_heap,        \* scene construction: the Python objects
    config_scene,      \* config['scene']: the list of source references
    psf_subtraction_source, \* config['strategy']['psf_subtraction_source']
    targetstar,        \* the name targetstar (target in the NIRCam notebooks)
    planetA,           \* the name planetA (planet_a)
    planetB,           \* the name planetB (planet_b)
    refstar,           \* the name refstar (reference)
    inv                \* the locals of two concurrent invocations

\* the arguments, locals and caller of one call of quick_contrast
qcvars == <<occulted_image, unocculted_image, n_annuli, pc, unocc_aperture,
            norm, occ_aperture, radial, radial_bins, annuli_inds, contrast,
            result, error, prev_result, ncalls, scale>>

\* the globals of a notebook
nbvars == <<notebook, cell, options, backup, bracket_open, saved_at, heap,
            config, occulted, unocculted, current_config, ngroup,
            engine_call, occ_slope,
            unocc_slope, ref_slope, ref_sub, qc_call>>

\* the further globals of the small-grid-dither notebook
sgdvars == <<sgds, sgd_configs, initial_options, otf_options,
             otf_targ_results, otf_sgd_results>>

\* the globals of the scene construction cells
scvars == <<scene_nb, scene_cell, scene_heap, config_scene,
            psf_subtraction_source,
            targetstar, planetA, planetB, refstar>>

vars == <<qcvars, nbvars, sgdvars, scvars, inv>>

\* ---- arithmetic helpers -----------------------------------------------
RECURSIVE SeqSum(_)
SeqSum(s) == IF s = <<>> THEN 0 ELSE Head(s) + SeqSum(Tail(s))

RECURSIVE GCD(_, _)
GCD(a, b) == IF b = 0 THEN a ELSE GCD(b, a % b)

Sign(x) == IF x < 0 THEN -1 ELSE IF x = 0 THEN 0 ELSE 1

\* ---- images -------------------------------------------------------------
\* A 2-D array: its shape and its values, indexed from 0.
Pixels(shape) == (0 .. shape[1] - 1) \X (0 .. shape[2] - 1)

NoArray == [shape |-> <<0, 0>>, data |-> <<>>]

\* A uniform image of value bg, except for the pixels of hot (none or
\* one), which have the value HotVal.
MkImage(rows, cols, bg, hot) ==
    LET val(p) == IF p \in hot THEN HotVal ELSE bg
    IN  [shape |-> <<rows, cols>>,
         data |-> [p \in Pixels(<<rows, cols>>) |-> val(p)]]

\* The middle pixel of an image, and a pixel on its last row.
MidPixel(rows, cols) == <<rows \div 2, cols \div 2>>

EdgePixel(rows, cols) == <<rows - 1, cols - 1 - KernelSize \div 2>>

\* The image with every pixel multiplied by k.
ScaleImage(img, k) ==
    [shape |-> img.shape,
     data |-> [p \in Pixels(img.shape) |-> k * img.data[p]]]

\* ---- the aperture kernel ----------------------------------------------
\* Variant: a five-pixel plus (the centre and its four neighbours).
KernelRows_Plus5 == << <<0, 0, 0, 0, 0>>,
                       <<0, 0, 1, 0, 0>>,
                       <<0, 1, 1, 1, 0>>,
                       <<0, 0, 1, 0, 0>>,
                       <<0, 0, 0, 0, 0>> >>

KernelRows == << <<0, 0, 1, 0, 0>>,
                 <<0, 1, 1, 1, 0>>,
                 <<1, 1, 1, 1, 1>>,
                 <<0, 1, 1, 1, 0>>,
                 <<0, 0, 1, 0, 0>> >>

kernel ==
    LET val(p) == KernelRows[p[1] + 1][p[2] + 1]
    IN  [shape |-> <<KernelSize, KernelSize>>,
         data |-> [p \in Pixels(<<KernelSize, KernelSize>>) |-> val(p)]]

\* ---- scipy.signal.fftconvolve(in1, in2, mode='valid') -----------------
AtLeast(s1, s2) == s1[1] >= s2[1] /\ s1[2] >= s2[2]

\* 'valid' mode needs one operand at least as large as the other in every
\* dimension; otherwise fftconvolve raises ValueError.
ValidModeOk(s1, s2) == AtLeast(s1, s2) \/ AtLeast(s2, s1)

\* The larger operand comes first; fftconvolve swaps them when in1 is not
\* at least as large as in2.
InputsSwapNeeded(s1, s2) == ~ AtLeast(s1, s2)

\* Variant: every pixel of the window counts, whatever its kernel weight.
Convolve2DValid_Box(big, small) ==
    LET sr == small.shape[1]
        sc == small.shape[2]
        term(p, t) ==
            big.data[<<p[1] + ((t - 1) \div sc), p[2] + ((t - 1) % sc)>>]
        val(p) == SeqSum([t \in 1 .. sr * sc |-> term(p, t)])
    IN  [shape |-> <<big.shape[1] - sr + 1, big.shape[2] - sc + 1>>,
         data |-> [p \in Pixels(<<big.shape[1] - sr + 1, big.shape[2] - sc + 1>>) |-> val(p)]]

\* Full-overlap convolution of big with small:
\* out[i,j] = sum over (a,b) of big[i+a, j+b] * small[sr-1-a, sc-1-b].
Convolve2DValid(big, small) ==
    LET sr == small.shape[1]
        sc == small.shape[2]
        term(p, t) ==
            LET a == (t - 1) \div sc
                b == (t - 1) % sc
            IN  big.data[<<p[1] + a, p[2] + b>>]
                    * small.data[<<sr - 1 - a, sc - 1 - b>>]
        val(p) == SeqSum([t \in 1 .. sr * sc |-> term(p, t)])
    IN  [shape |-> <<big.shape[1] - sr + 1, big.shape[2] - sc + 1>>,
         data |-> [p \in Pixels(<<big.shape[1] - sr + 1, big.shape[2] - sc + 1>>) |-> val(p)]]

fftconvolve(in1, in2) ==
    IF InputsSwapNeeded(in1.shape, in2.shape)
    THEN Convolve2DValid(in2, in1)
    ELSE Convolve2DValid(in1, in2)

\* ---- numpy helpers ------------------------------------------------------
\* np.max of a non-empty array
ArrayMax(a) ==
    CHOOSE v \in {a.data[p] : p \in DOMAIN a.data} :
        \A q \in DOMAIN a.data : a.data[q] <= v

SetMin(S) == CHOOSE v \in S : \A w \in S : v <= w

\* radial = sqrt((i - rows/2)^2 + (j - cols/2)^2), kept as 4 * radial^2
RadialSq(shape) ==
    LET val(p) == (2 * p[1] - shape[1]) * (2 * p[1] - shape[1])
                + (2 * p[2] - shape[2]) * (2 * p[2] - shape[2])
    IN  [shape |-> shape,
         data |-> [p \in Pixels(shape) |-> val(p)]]

\* Variant: endpoint left out and one edge short (num - 1 edges).
Linspace_OneShort(stopSq, num) ==
    [k \in 1 .. num - 1 |->
        [num |-> (k - 1) * (k - 1) * stopSq, den |-> (num - 1) * (num - 1)]]

\* np.linspace(0, stop, num): num edges (k-1)/(num-1) * stop, k = 1..num,
\* each kept as the fraction 4*edge^2 = (k-1)^2 * stopSq / (num-1)^2.
Linspace(stopSq, num) ==
    [k \in 1 .. num |->
        [num |-> (k - 1) * (k - 1) * stopSq, den |-> (num - 1) * (num - 1)]]

\* Variant: right = True, i.e. bins[i-1] < x <= bins[i].
Digitize_RightClosed(x, bins) ==
    Cardinality({k \in 1 .. Len(bins) : bins[k].num < x * bins[k].den})

\* np.digitize(x, bins) for increasing bins: the i with
\* bins[i-1] <= x < bins[i]; 0 below the first edge, len(bins) from the
\* last edge on.  x is 4*r^2, each edge a fraction of the same unit.
Digitize(x, bins) ==
    Cardinality({k \in 1 .. Len(bins) : bins[k].num <= x * bins[k].den})

DigitizeArray(a, bins) ==
    [shape |-> a.shape,
     data |-> [p \in Pixels(a.shape) |-> Digitize(a.data[p], bins)]]

\* np.unique: the distinct values in increasing order
RECURSIVE SortedSeq(_)
SortedSeq(S) ==
    IF S = {} THEN <<>> ELSE <<SetMin(S)>> \o SortedSeq(S \ {SetMin(S)})

\* Variant: the distinct values in decreasing order.
Unique_Descending(a) ==
    LET u == SortedSeq({a.data[p] : p \in DOMAIN a.data})
    IN  [k \in 1 .. Len(u) |-> u[Len(u) + 1 - k]]

Unique(a) == SortedSeq({a.data[p] : p \in DOMAIN a.data})

\* occ_aperture[annuli_inds == a]: the selected pixels of the grid
Masked(inds, a) == {p \in DOMAIN inds.data : inds.data[p] = a}

\* The boolean mask must have the shape of the indexed array (IndexError).
MaskShapeOk(arr, mask) == arr.shape = mask.shape

RECURSIVE SumOver(_, _, _)
SumOver(arr, S, power) ==
    IF S = {} THEN 0
    ELSE LET p == CHOOSE q \in S : TRUE
             v == arr.data[p]
         IN  (IF power = 2 THEN v * v ELSE v) + SumOver(arr, S \ {p}, power)

\* np.std (population, ddof = 0) of the pixels S of arr:
\* sqrt(m * sum(x^2) - sum(x)^2) / m, kept as [num, den] with std^2 = num/den.
Std(arr, S) ==
    LET m  == Cardinality(S)
        s1 == SumOver(arr, S, 1)
        s2 == SumOver(arr, S, 2)
    IN  [num |-> m * s2 - s1 * s1, den |-> m * m]

\* ---- contrast values ----------------------------------------------------
NaN == [kind |-> "nan", sign |-> 0, num |-> 0, den |-> 1]

Inf == [kind |-> "inf", sign |-> 1, num |-> 0, den |-> 1]

Finite(sign, num, den) ==
    LET g == GCD(num, den)
    IN  [kind |-> "finite", sign |-> IF num = 0 THEN 0 ELSE sign,
         num |-> num \div g, den |-> den \div g]

\* Variant: the sign of the quotient is inverted.
Divide_WrongSign(std, nrm) ==
    IF nrm = 0
    THEN IF std.num = 0 THEN NaN ELSE Inf
    ELSE Finite(- Sign(nrm), std.num, std.den * nrm * nrm)

\* Variant: the division by norm is left out.
Divide_NoNorm(std, nrm) ==
    IF nrm = 0
    THEN IF std.num = 0 THEN NaN ELSE Inf
    ELSE Finite(Sign(nrm), std.num, std.den)

\* std / norm in IEEE arithmetic: x/0 is inf for x > 0 and nan for x = 0.
Divide(std, nrm) ==
    IF nrm = 0
    THEN IF std.num = 0 THEN NaN ELSE Inf
    ELSE Finite(Sign(nrm), std.num, std.den * nrm * nrm)

\* ---- the steps of quick_contrast ---------------------------------------
Norm(aperture) == ArrayMax(aperture)

\* Variant: edges uniform in radius squared instead of in radius.
RadialBins_UniformInSquare(rad, n) ==
    [k \in 1 .. n |-> [num |-> (k - 1) * ArrayMax(rad), den |-> n - 1]]

RadialBins(rad, n) == Linspace(ArrayMax(rad), n)

\* Variant: one value for every bin index 1..n, occupied or not (the
\* standard deviation of an empty selection is nan).
ContrastOf_EveryBin(occ, inds, nrm) ==
    [k \in 1 .. Len(radial_bins) |->
        IF Masked(inds, k) = {} THEN NaN
        ELSE Divide(Std(occ, Masked(inds, k)), nrm)]

\* Variant: the values are appended to the list of the preceding call.
ContrastOf_Accumulating(occ, inds, nrm) ==
    LET u == Unique(inds)
    IN  prev_result.contrast
            \o [k \in 1 .. Len(u) |-> Divide(Std(occ, Masked(inds, u[k])), nrm)]

ContrastOf(occ, inds, nrm) ==
    LET u == Unique(inds)
    IN  [k \in 1 .. Len(u) |-> Divide(Std(occ, Masked(inds, u[k])), nrm)]

NoResult == [radial_bins |-> <<>>, contrast |-> <<>>]

\* ---- notebook data ------------------------------------------------------
\* Python objects live in a heap, a sequence of objects indexed by their
\* reference; a name (config, occulted, unocculted) holds a reference, 0
\* while it is unbound.  Offsets are in tenths of an arcsecond.
Source(name, dx, dy) ==
    [kind |-> "source", name |-> name, x_offset |-> dx, y_offset |-> dy]

ListObj(items) == [kind |-> "list", items |-> items]

CalcObj(scene, g, n, sat) ==
    [kind |-> "calc", scene |-> scene, ngroup |-> g, nint |-> n,
     saturation |-> sat]

\* names of the sources of config['scene'] after scene construction
SceneNames(nb) ==
    IF nb = "miri" THEN <<"targetstar", "planetA">>
    ELSE <<"target", "planetA", "planetB">>

\* ngroup chosen in the first code cell
InitialNGroup(nb) == IF nb = "miri" THEN 10 ELSE 20

\* The heap once the scene is built: the sources, the scene list, config.
\* (ta is the target acquisition error added to every source.)
BuiltHeap(nb, ta, sat) ==
    LET names == SceneNames(nb)
        k == Len(names)
    IN  [i \in 1 .. k |-> Source(names[i], ta, ta)]
            \o <<ListObj([i \in 1 .. k |-> i])>>
            \o <<CalcObj(k + 1, InitialNGroup(nb), 1, sat)>>

\* Variant: no copy is made, the new name is bound to the same dictionary.
deepcopy_Alias(h, r) == [heap |-> h, ref |-> r]

\* copy.deepcopy of a calculation dictionary: fresh sources, a fresh scene
\* list and a fresh dictionary; nothing is shared with the original.
deepcopy(h, r) ==
    LET items == h[h[r].scene].items
        k == Len(items)
        base == Len(h)
    IN  [heap |-> h \o [i \in 1 .. k |-> h[items[i]]]
                    \o <<ListObj([i \in 1 .. k |-> base + i])>>
                    \o <<[h[r] EXCEPT !.scene = base + k + 1]>>,
         ref |-> base + k + 2]

\* calc['scene'].pop(-1)
PopLast(h, r) ==
    LET l == h[r].scene
    IN  [h EXCEPT ![l].items = SubSeq(@, 1, Len(@) - 1)]

\* calc['scene'][0]['position']['x_offset'] = dx, and y_offset = dy
SetOffset(h, r, dx, dy) ==
    LET s == h[h[r].scene].items[1]
    IN  [h EXCEPT ![s].x_offset = dx, ![s].y_offset = dy]

\* calc['configuration']['detector']['ngroup'] = g, and ['nint'] = n
SetExposure(h, r, g, n) == [h EXCEPT ![r].ngroup = g, ![r].nint = n]

\* what a calculation dictionary says, read through its references
Contents(h, r) ==
    LET items == h[h[r].scene].items
    IN  [scene |-> [i \in 1 .. Len(items) |-> h[items[i]]],
         ngroup |-> h[r].ngroup, nint |-> h[r].nint,
         saturation |-> h[r].saturation]

NoOptions == [wave_sampling |-> 0, on_the_fly_PSFs |-> FALSE,
              saturation |-> FALSE]

NoCall == [fn |-> "none", calc |-> <<>>, options |-> NoOptions]

\* A detector image, reduced to whether it has NaN pixels.
Image(has_nan) == [defined |-> TRUE, nan |-> has_nan]

NoImage == [defined |-> FALSE, nan |-> FALSE]

\* The dither notebook's own globals while they are unbound.
NoSgd ==
    /\ sgds = <<>>
    /\ sgd_configs = <<>>
    /\ initial_options = NoOptions
    /\ otf_options = NoOptions
    /\ otf_targ_results = NoCall
    /\ otf_sgd_results = <<>>

\* The state of the scene construction variables while no scene is built.
NoScene ==
    /\ scene_nb = "none"
    /\ scene_cell = "none"
    /\ scene_heap = <<>>
    /\ config_scene = <<>>
    /\ psf_subtraction_source = 0
    /\ targetstar = 0
    /\ planetA = 0
    /\ planetB = 0
    /\ refstar = 0

\* The state of the notebook variables while no notebook is run.
NoNotebook ==
    /\ notebook = "none"
    /\ cell = "none"
    /\ options = NoOptions
    /\ backup = <<>>
    /\ bracket_open = FALSE
    /\ saved_at = <<>>
    /\ heap = <<>>
    /\ config = 0
    /\ occulted = 0
    /\ unocculted = 0
    /\ current_config = 0
    /\ ngroup = 0
    /\ engine_call = NoCall
    /\ occ_slope = NoImage
    /\ unocc_slope = NoImage
    /\ ref_slope = NoImage
    /\ ref_sub = NoImage
    /\ qc_call = <<>>

Dims == (KernelSize - 2) .. MaxDim

\* The occulted image has any shape in Dims x Dims and is uniform or has one
\* bright pixel, in the middle or on the last row; the unocculted image has
\* the same shape, or is the smallest or the largest square, and is uniform
\* or has one bright pixel on the last row.
Init ==
    /\ \E orows \in Dims, ocols \in Dims, obg \in 0 .. MaxVal :
         \E ohot \in {{}, {MidPixel(orows, ocols)}, {EdgePixel(orows, ocols)}} :
           occulted_image = MkImage(orows, ocols, obg, ohot)
    /\ \E ushape \in {occulted_image.shape}
                        \cup {<<d, d>> : d \in {KernelSize - 2, MaxDim}},
          ubg \in -1 .. MaxVal :
         \E uhot \in {{}, {EdgePixel(ushape[1], ushape[2])}} :
           unocculted_image = MkImage(ushape[1], ushape[2], ubg, uhot)
    /\ n_annuli \in 2 .. MaxAnnuli
    /\ pc = "convolve_unocculted"
    /\ unocc_aperture = NoArray
    /\ norm = 0
    /\ occ_aperture = NoArray
    /\ radial = NoArray
    /\ radial_bins = <<>>
    /\ annuli_inds = NoArray
    /\ contrast = <<>>
    /\ result = NoResult
    /\ error = "none"
    /\ prev_result = NoResult
    /\ ncalls = 1
    /\ scale = 1
    /\ NoNotebook
    /\ inv = <<>>
    /\ NoSgd
    /\ NoScene

Raise(exc) ==
    /\ pc' = "raised"
    /\ error' = exc

\* unocc_aperture = fftconvolve(unocculted_image, kernel, mode='valid')
ConvolveUnocculted ==
    /\ pc = "convolve_unocculted"
    /\ UNCHANGED <<nbvars, sgdvars, scvars, inv>>
    /\ IF ValidModeOk(unocculted_image.shape, kernel.shape)
       THEN /\ unocc_aperture' = fftconvolve(unocculted_image, kernel)
            /\ pc' = "norm"
            /\ UNCHANGED error
       ELSE /\ Raise("ValueError")
            /\ UNCHANGED unocc_aperture
    /\ UNCHANGED <<occulted_image, unocculted_image, n_annuli, norm,
                   occ_aperture, radial, radial_bins, annuli_inds, contrast,
                   result, prev_result, ncalls, scale>>

\* norm = np.max(unocc_aperture)
Normalize ==
    /\ pc = "norm"
    /\ UNCHANGED <<nbvars, sgdvars, scvars, inv>>
    /\ norm' = Norm(unocc_aperture)
    /\ pc' = "convolve_occulted"
    /\ UNCHANGED <<occulted_image, unocculted_image, n_annuli, unocc_aperture,
                   occ_aperture, radial, radial_bins, annuli_inds, contrast,
                   result, error, prev_result, ncalls, scale>>

\* Variant: the convolved image is also written back into the argument.
ConvolveOcculted_InPlace ==
    /\ pc = "convolve_occulted"
    /\ UNCHANGED <<nbvars, sgdvars, scvars, inv>>
    /\ IF ValidModeOk(occulted_image.shape, kernel.shape)
       THEN /\ occ_aperture' = fftconvolve(occulted_image, kernel)
            /\ occulted_image' = fftconvolve(occulted_image, kernel)
            /\ pc' = "radial"
            /\ UNCHANGED error
       ELSE /\ Raise("ValueError")
            /\ UNCHANGED <<occ_aperture, occulted_image>>
    /\ UNCHANGED <<unocculted_image, n_annuli, unocc_aperture,
                   norm, radial, radial_bins, annuli_inds, contrast, result,
                   prev_result, ncalls, scale>>

\* occ_aperture = fftconvolve(occulted_image, kernel, mode='valid')
ConvolveOcculted ==
    /\ pc = "convolve_occulted"
    /\ UNCHANGED <<nbvars, sgdvars, scvars, inv>>
    /\ IF ValidModeOk(occulted_image.shape, kernel.shape)
       THEN /\ occ_aperture' = fftconvolve(occulted_image, kernel)
            /\ pc' = "radial"
            /\ UNCHANGED error
       ELSE /\ Raise("ValueError")
            /\ UNCHANGED occ_aperture
    /\ UNCHANGED <<occulted_image, unocculted_image, n_annuli, unocc_aperture,
                   norm, radial, radial_bins, annuli_inds, contrast, result,
                   prev_result, ncalls, scale>>

\* indices, center, radial: distances on the grid of unocc_aperture
ComputeRadial ==
    /\ pc = "radial"
    /\ UNCHANGED <<nbvars, sgdvars, scvars, inv>>
    /\ radial' = RadialSq(unocc_aperture.shape)
    /\ pc' = "radial_bins"
    /\ UNCHANGED <<occulted_image, unocculted_image, n_annuli, unocc_aperture,
                   norm, occ_aperture, radial_bins, annuli_inds, contrast,
                   result, error, prev_result, ncalls, scale>>

\* radial_bins = np.linspace(0, np.max(radial), num=n_annuli)
ComputeBins ==
    /\ pc = "radial_bins"
    /\ UNCHANGED <<nbvars, sgdvars, scvars, inv>>
    /\ radial_bins' = RadialBins(radial, n_annuli)
    /\ pc' = "annuli_inds"
    /\ UNCHANGED <<occulted_image, unocculted_image, n_annuli, unocc_aperture,
                   norm, occ_aperture, radial, annuli_inds, contrast, result,
                   error, prev_result, ncalls, scale>>

\* annuli_inds = np.digitize(radial, radial_bins)
ComputeAnnuli ==
    /\ pc = "annuli_inds"
    /\ UNCHANGED <<nbvars, sgdvars, scvars, inv>>
    /\ annuli_inds' = DigitizeArray(radial, radial_bins)
    /\ pc' = "contrast"
    /\ UNCHANGED <<occulted_image, unocculted_image, n_annuli, unocc_aperture,
                   norm, occ_aperture, radial, radial_bins, contrast, result,
                   error, prev_result, ncalls, scale>>

\* contrast = np.array([np.std(occ_aperture[annuli_inds == a])
\*                      for a in np.unique(annuli_inds)]) / norm
ComputeContrast ==
    /\ pc = "contrast"
    /\ UNCHANGED <<nbvars, sgdvars, scvars, inv>>
    /\ IF MaskShapeOk(occ_aperture, annuli_inds)
       THEN /\ contrast' = ContrastOf(occ_aperture, annuli_inds, norm)
            /\ pc' = "return"
            /\ UNCHANGED error
       ELSE /\ Raise("IndexError")
            /\ UNCHANGED contrast
    /\ UNCHANGED <<occulted_image, unocculted_image, n_annuli, unocc_aperture,
                   norm, occ_aperture, radial, radial_bins, annuli_inds,
                   result, prev_result, ncalls, scale>>

\* return radial_bins, contrast
Return ==
    /\ pc = "return"
    /\ UNCHANGED <<nbvars, sgdvars, scvars, inv>>
    /\ result' = [radial_bins |-> radial_bins, contrast |-> contrast]
    /\ pc' = "returned"
    /\ UNCHANGED <<occulted_image, unocculted_image, n_annuli, unocc_aperture,
                   norm, occ_aperture, radial, radial_bins, annuli_inds,
                   contrast, error, prev_result, ncalls, scale>>

\* The caller keeps the returned pair and calls quick_contrast once more,
\* with both images multiplied by k (k = 1: the very same arguments).
CallAgain ==
    /\ pc = "returned"
    /\ UNCHANGED <<nbvars, sgdvars, scvars, inv>>
    /\ ncalls = 1
    /\ \E k \in 1 .. MaxScale :
           /\ occulted_image' = ScaleImage(occulted_image, k)
           /\ unocculted_image' = ScaleImage(unocculted_image, k)
           /\ scale' = k
    /\ prev_result' = result
    /\ ncalls' = ncalls + 1
    /\ pc' = "convolve_unocculted"
    /\ unocc_aperture' = NoArray
    /\ norm' = 0
    /\ occ_aperture' = NoArray
    /\ radial' = NoArray
    /\ radial_bins' = <<>>
    /\ annuli_inds' = NoArray
    /\ contrast' = <<>>
    /\ result' = NoResult
    /\ UNCHANGED <<n_annuli, error>>

Next ==
    \/ ConvolveUnocculted
    \/ Normalize
    \/ ConvolveOcculted
    \/ ComputeRadial
    \/ ComputeBins
    \/ ComputeAnnuli
    \/ ComputeContrast
    \/ Return
    \/ CallAgain

Spec == Init /\ [][Next]_vars

\* ======================================================================
\* The photon-noise notebooks: the engine run cell, the construction of
\* the occulted and unocculted calculations, and the contrast loop
\* ======================================================================

\* ---- bounds and constants of the notebooks ---------------------------
\* last ngroup of the explored contrast loops (the notebooks go up to 10)
MaxNGroup == 3
\* first entry of ngroup_list = range(2,11)
FirstNGroup == 2
\* values the options can start with: the two values the notebooks assign
\* and the engine's own large default
WaveSamplings == {11, 21, 150}
\* target acquisition errors added to the scene
TAErrors == {0, 1}

optvars == <<options, backup, bracket_open, saved_at>>
calcvars == <<heap, config, occulted, unocculted, current_config>>
imgvars == <<occ_slope, unocc_slope, ref_slope, ref_sub, qc_call>>

\* ---- the options object and the engine, as the notebooks describe them
\* options.save_options(): the new content of the single internal backup
save_options(opts) == <<opts>>

\* options.restore_options(): the options once the backup is put back
restore_options(opts, bk) == IF bk = <<>> THEN opts ELSE bk[1]

\* options.set_saturation(flag)
set_saturation(opts, flag) == [opts EXCEPT !.saturation = flag]

\* the detector images an engine call can return: with or without NaNs
EngineImages == {Image(b) : b \in BOOLEAN}

\* pancake.analysis.register_to_target(reference, target): a NaN of either
\* image may or may not end up in the registered reference
register_to_target(reference, target) ==
    IF reference.nan \/ target.nan THEN {Image(TRUE), Image(FALSE)}
    ELSE {Image(FALSE)}

\* image - np.nanmean(image): nanmean skips the NaNs, the difference keeps
\* them
Centered(image) == Image(image.nan)

\* a - b, pixel by pixel
Subtract(a, b) == Image(a.nan \/ b.nan)

EngineCall(fn, r) ==
    [fn |-> fn, calc |-> Contents(heap, r), options |-> options]

\* no call of quick_contrast is in progress
QcIdle ==
    /\ occulted_image = NoArray
    /\ unocculted_image = NoArray
    /\ n_annuli = 2
    /\ pc = "idle"
    /\ unocc_aperture = NoArray
    /\ norm = 0
    /\ occ_aperture = NoArray
    /\ radial = NoArray
    /\ radial_bins = <<>>
    /\ annuli_inds = NoArray
    /\ contrast = <<>>
    /\ result = NoResult
    /\ error = "none"
    /\ prev_result = NoResult
    /\ ncalls = 0
    /\ scale = 1

\* The scene is built; the options hold any values; nothing else is bound.
NbInit ==
    /\ notebook \in {"miri", "nircam"}
    /\ cell = IF notebook = "miri" THEN "run_save" ELSE "run_calc"
    /\ options \in [wave_sampling : WaveSamplings, on_the_fly_PSFs : BOOLEAN,
                    saturation : BOOLEAN]
    /\ backup = <<>>
    /\ bracket_open = FALSE
    /\ saved_at = <<>>
    /\ \E ta \in TAErrors, sat \in BOOLEAN :
           heap = BuiltHeap(notebook, ta, sat)
    /\ config = Len(heap)
    /\ occulted = 0
    /\ unocculted = 0
    /\ current_config = 0
    /\ ngroup = 0
    /\ engine_call = NoCall
    /\ occ_slope = NoImage
    /\ unocc_slope = NoImage
    /\ ref_slope = NoImage
    /\ ref_sub = NoImage
    /\ qc_call = <<>>
    /\ QcIdle
    /\ inv = <<>>
    /\ NoSgd
    /\ NoScene

\* the effect of a line "options.save_options()"
SaveLine(next) ==
    /\ backup' = save_options(options)
    /\ bracket_open' = TRUE
    /\ saved_at' = <<options>>
    /\ cell' = next
    /\ UNCHANGED options

\* the effect of a line "options.restore_options()"
RestoreLine(next) ==
    /\ options' = restore_options(options, backup)
    /\ bracket_open' = FALSE
    /\ cell' = next
    /\ UNCHANGED <<backup, saved_at>>

\* ---- engine run cell (MIRI) -------------------------------------------
\* options = pancake.engine.options; options.save_options()
RunSave ==
    /\ cell = "run_save"
    /\ SaveLine("run_set")
    /\ UNCHANGED <<notebook, calcvars, ngroup, engine_call, imgvars>>
    /\ UNCHANGED <<qcvars, sgdvars, scvars, inv>>

\* options.wave_sampling = 21; options.on_the_fly_PSFs = True
RunSetOptions ==
    /\ cell = "run_set"
    /\ options' = [options EXCEPT !.wave_sampling = 21,
                                  !.on_the_fly_PSFs = TRUE]
    /\ cell' = "run_calc"
    /\ UNCHANGED <<notebook, backup, bracket_open, saved_at, calcvars,
                   ngroup, engine_call, imgvars>>
    /\ UNCHANGED <<qcvars, sgdvars, scvars, inv>>

\* results = pancake.engine.calculate_all(config)
RunCalculate ==
    /\ cell = "run_calc"
    /\ engine_call' = EngineCall("calculate_all", config)
    /\ cell' = IF notebook = "miri" THEN "run_restore" ELSE "sweep"
    /\ UNCHANGED <<notebook, optvars, calcvars, ngroup, imgvars>>
    /\ UNCHANGED <<qcvars, sgdvars, scvars, inv>>

\* options.restore_options()
RunRestore ==
    /\ cell = "run_restore"
    /\ RestoreLine("sweep")
    /\ UNCHANGED <<notebook, calcvars, ngroup, engine_call, imgvars>>
    /\ UNCHANGED <<qcvars, sgdvars, scvars, inv>>

\* ---- ngroup sweep --------------------------------------------------------
\* current_config = deepcopy(config) with ngroup = g and nint = 1
SweepStep(h, cfg, g) ==
    LET c == deepcopy(h, cfg)
    IN  [heap |-> SetExposure(c.heap, c.ref, g, 1), ref |-> c.ref]

\* One iteration of "for ngroup in ngroup_list" (its ngroup follows that of
\* the preceding current_config): the copy, calculate_all(current_config),
\* the two detector images and their subtraction; or the end of the loop.
Sweep ==
    /\ cell = "sweep"
    /\ LET next == IF current_config = 0 THEN FirstNGroup
                   ELSE heap[current_config].ngroup + 1
       IN  IF next <= MaxNGroup
           THEN LET c == SweepStep(heap, config, next)
                IN  /\ heap' = c.heap
                    /\ current_config' = c.ref
                    /\ engine_call' = [fn |-> "calculate_all",
                                       calc |-> Contents(c.heap, c.ref),
                                       options |-> options]
                    /\ occ_slope' \in EngineImages
                    /\ ref_slope' \in EngineImages
                    /\ \E reg_ref \in register_to_target(Centered(ref_slope'),
                                                         Centered(occ_slope')) :
                           ref_sub' = Subtract(Centered(occ_slope'), reg_ref)
                    /\ UNCHANGED cell
           ELSE /\ cell' = "build_occulted"
                /\ UNCHANGED <<heap, current_config, engine_call, occ_slope,
                               ref_slope, ref_sub>>
    /\ UNCHANGED <<notebook, optvars, config, occulted, unocculted, ngroup,
                   unocc_slope, qc_call>>
    /\ UNCHANGED <<qcvars, sgdvars, scvars, inv>>

\* ---- occulted and unocculted calculations ------------------------------
\* occulted = deepcopy(config); occulted['scene'].pop(-1), once for each
\* companion
BuildOcculted ==
    /\ cell = "build_occulted"
    /\ LET c == deepcopy(heap, config)
       IN  /\ occulted' = c.ref
           /\ heap' = IF notebook = "miri" THEN PopLast(c.heap, c.ref)
                      ELSE PopLast(PopLast(c.heap, c.ref), c.ref)
    /\ cell' = "build_unocculted"
    /\ UNCHANGED <<notebook, optvars, config, unocculted, current_config,
                   ngroup,
                   engine_call, imgvars>>
    /\ UNCHANGED <<qcvars, sgdvars, scvars, inv>>

\* unocculted = deepcopy(occulted); the star is moved by 0.8 arcsec in x
\* and y; NIRCam also sets ['calculation']['effects']['saturation'] = False
BuildUnocculted ==
    /\ cell = "build_unocculted"
    /\ LET c == deepcopy(heap, occulted)
           moved == SetOffset(c.heap, c.ref, 8, 8)
       IN  /\ unocculted' = c.ref
           /\ heap' = IF notebook = "miri" THEN moved
                      ELSE [moved EXCEPT ![c.ref].saturation = FALSE]
    /\ cell' = IF notebook = "miri" THEN "loop_save" ELSE "loop_head"
    /\ UNCHANGED <<notebook, optvars, config, occulted, current_config,
                   ngroup,
                   engine_call, imgvars>>
    /\ UNCHANGED <<qcvars, sgdvars, scvars, inv>>

\* ---- contrast loop -------------------------------------------------------
\* options.save_options() (MIRI)
LoopSave ==
    /\ cell = "loop_save"
    /\ SaveLine("loop_set")
    /\ UNCHANGED <<notebook, calcvars, ngroup, engine_call, imgvars>>
    /\ UNCHANGED <<qcvars, sgdvars, scvars, inv>>

\* options.on_the_fly_PSFs = True; options.wave_sampling = 11 (MIRI)
LoopSetOptions ==
    /\ cell = "loop_set"
    /\ options' = [options EXCEPT !.on_the_fly_PSFs = TRUE,
                                  !.wave_sampling = 11]
    /\ cell' = "loop_head"
    /\ UNCHANGED <<notebook, backup, bracket_open, saved_at, calcvars,
                   ngroup, engine_call, imgvars>>
    /\ UNCHANGED <<qcvars, sgdvars, scvars, inv>>

\* for ngroup in ngroup_list: the next ngroup, or the end of the loop
LoopHead ==
    /\ cell = "loop_head"
    /\ LET next == IF ngroup = 0 THEN FirstNGroup ELSE ngroup + 1
       IN  IF next <= MaxNGroup
           THEN /\ ngroup' = next
                /\ cell' = "loop_configure"
           ELSE /\ cell' = IF notebook = "miri" THEN "loop_restore"
                           ELSE "done"
                /\ UNCHANGED ngroup
    /\ UNCHANGED <<notebook, optvars, calcvars, engine_call, imgvars>>
    /\ UNCHANGED <<qcvars, sgdvars, scvars, inv>>

\* The exposure parameters of this iteration.  MIRI writes them into the
\* occulted and unocculted calculations built before the loop; NIRCam
\* first rebinds both names to fresh deep copies of config.
LoopConfigure ==
    /\ cell = "loop_configure"
    /\ IF notebook = "miri"
       THEN /\ heap' = SetExposure(SetExposure(heap, occulted, ngroup, 1),
                                   unocculted, 200, 10)
            /\ UNCHANGED <<occulted, unocculted>>
       ELSE LET o == deepcopy(heap, config)
                u == deepcopy(SetExposure(o.heap, o.ref, ngroup, 1), config)
            IN  /\ occulted' = o.ref
                /\ unocculted' = u.ref
                /\ heap' = SetExposure(u.heap, u.ref, 200, 10)
    /\ cell' = "loop_calc_occ"
    /\ UNCHANGED <<notebook, optvars, config, current_config, ngroup,
                   engine_call, imgvars>>
    /\ UNCHANGED <<qcvars, sgdvars, scvars, inv>>

\* calculate_all(occulted); occ_slope and ref_slope are its target and
\* reference detector images
LoopCalcOcculted ==
    /\ cell = "loop_calc_occ"
    /\ engine_call' = EngineCall("calculate_all", occulted)
    /\ occ_slope' \in EngineImages
    /\ ref_slope' \in EngineImages
    /\ cell' = IF notebook = "miri" THEN "loop_sat_off"
               ELSE "loop_calc_unocc"
    /\ UNCHANGED <<notebook, optvars, calcvars, ngroup, unocc_slope,
                   ref_sub, qc_call>>
    /\ UNCHANGED <<qcvars, sgdvars, scvars, inv>>

\* options.set_saturation(False) preceded by a second options.save_options()
LoopSaturationOff_Saving ==
    /\ cell = "loop_sat_off"
    /\ backup' = save_options(options)
    /\ options' = set_saturation(options, FALSE)
    /\ cell' = "loop_calc_unocc"
    /\ UNCHANGED <<notebook, bracket_open, saved_at, calcvars, ngroup,
                   engine_call, imgvars>>
    /\ UNCHANGED <<qcvars, sgdvars, scvars, inv>>

\* options.set_saturation(False) (MIRI)
LoopSaturationOff ==
    /\ cell = "loop_sat_off"
    /\ options' = set_saturation(options, FALSE)
    /\ cell' = "loop_calc_unocc"
    /\ UNCHANGED <<notebook, backup, bracket_open, saved_at, calcvars,
                   ngroup, engine_call, imgvars>>
    /\ UNCHANGED <<qcvars, sgdvars, scvars, inv>>

\* calculate_target(unocculted) (MIRI) or
\* calculate_contrast(unocculted, 0.8, 0.8) (NIRCam); unocc_slope is its
\* detector image
LoopCalcUnocculted ==
    /\ cell = "loop_calc_unocc"
    /\ engine_call' = EngineCall(IF notebook = "miri" THEN "calculate_target"
                                 ELSE "calculate_contrast", unocculted)
    /\ unocc_slope' \in EngineImages
    /\ cell' = IF notebook = "miri" THEN "loop_sat_on" ELSE "loop_subtract"
    /\ UNCHANGED <<notebook, optvars, calcvars, ngroup, occ_slope,
                   ref_slope, ref_sub, qc_call>>
    /\ UNCHANGED <<qcvars, sgdvars, scvars, inv>>

\* options.set_saturation(True) (MIRI)
LoopSaturationOn ==
    /\ cell = "loop_sat_on"
    /\ options' = set_saturation(options, TRUE)
    /\ cell' = "loop_subtract"
    /\ UNCHANGED <<notebook, backup, bracket_open, saved_at, calcvars,
                   ngroup, engine_call, imgvars>>
    /\ UNCHANGED <<qcvars, sgdvars, scvars, inv>>

\* centered_occ, centered_ref, reg_ref; ref_sub = centered_occ - reg_ref
LoopSubtract ==
    /\ cell = "loop_subtract"
    /\ \E reg_ref \in register_to_target(Centered(ref_slope),
                                         Centered(occ_slope)) :
           ref_sub' = Subtract(Centered(occ_slope), reg_ref)
    /\ cell' = "loop_contrast_raw"
    /\ UNCHANGED <<notebook, optvars, calcvars, ngroup, engine_call,
                   occ_slope, unocc_slope, ref_slope, qc_call>>
    /\ UNCHANGED <<qcvars, sgdvars, scvars, inv>>

\* quick_contrast(occ_slope, unocc_slope, n_annuli=n_annuli)
LoopContrastRaw ==
    /\ cell = "loop_contrast_raw"
    /\ qc_call' = <<occ_slope, unocc_slope>>
    /\ cell' = "loop_contrast_refsub"
    /\ UNCHANGED <<notebook, optvars, calcvars, ngroup, engine_call,
                   occ_slope, unocc_slope, ref_slope, ref_sub>>
    /\ UNCHANGED <<qcvars, sgdvars, scvars, inv>>

\* quick_contrast(ref_sub, unocc_slope, n_annuli=n_annuli)
LoopContrastRefSub ==
    /\ cell = "loop_contrast_refsub"
    /\ qc_call' = <<ref_sub, unocc_slope>>
    /\ cell' = "loop_head"
    /\ UNCHANGED <<notebook, optvars, calcvars, ngroup, engine_call,
                   occ_slope, unocc_slope, ref_slope, ref_sub>>
    /\ UNCHANGED <<qcvars, sgdvars, scvars, inv>>

\* options.restore_options() (MIRI)
LoopRestore ==
    /\ cell = "loop_restore"
    /\ RestoreLine("done")
    /\ UNCHANGED <<notebook, calcvars, ngroup, engine_call, imgvars>>
    /\ UNCHANGED <<qcvars, sgdvars, scvars, inv>>

\* ---- an engine call that raises -------------------------------------------
\* The cells have no try/finally: an exception raised by the engine ends
\* the cell at the call, and none of the lines after it is executed.
EngineFails(fn, r, at) ==
    /\ cell = at
    /\ engine_call' = EngineCall(fn, r)
    /\ cell' = "failed_" \o at
    /\ UNCHANGED <<notebook, optvars, calcvars, ngroup, imgvars>>
    /\ UNCHANGED <<qcvars, sgdvars, scvars, inv>>

\* calculate_all(config) raises in the engine run cell
RunCalculateFails == EngineFails("calculate_all", config, "run_calc")

\* calculate_all(occulted) raises in the contrast loop
LoopCalcOccultedFails ==
    EngineFails("calculate_all", occulted, "loop_calc_occ")

\* Variant: the loop is wrapped in try/finally, so the options are restored
\* when the unocculted calculation raises.
LoopCalcUnoccultedFails_Finally ==
    /\ cell = "loop_calc_unocc"
    /\ engine_call' = EngineCall(IF notebook = "miri" THEN "calculate_target"
                                 ELSE "calculate_contrast", unocculted)
    /\ options' = restore_options(options, backup)
    /\ bracket_open' = FALSE
    /\ cell' = "failed_loop_calc_unocc"
    /\ UNCHANGED <<notebook, backup, saved_at, calcvars, ngroup, imgvars>>
    /\ UNCHANGED <<qcvars, sgdvars, scvars, inv>>

\* calculate_target(unocculted) or calculate_contrast(unocculted, ...)
\* raises in the contrast loop
LoopCalcUnoccultedFails ==
    EngineFails(IF notebook = "miri" THEN "calculate_target"
                ELSE "calculate_contrast", unocculted, "loop_calc_unocc")

NbNext ==
    \/ RunSave
    \/ RunSetOptions
    \/ RunCalculate
    \/ RunRestore
    \/ Sweep
    \/ BuildOcculted
    \/ BuildUnocculted
    \/ LoopSave
    \/ LoopSetOptions
    \/ LoopHead
    \/ LoopConfigure
    \/ LoopCalcOcculted
    \/ LoopSaturationOff
    \/ LoopCalcUnocculted
    \/ LoopSaturationOn
    \/ LoopSubtract
    \/ LoopContrastRaw
    \/ LoopContrastRefSub
    \/ LoopRestore
    \/ RunCalculateFails
    \/ LoopCalcOccultedFails
    \/ LoopCalcUnoccultedFails

NbSpec == NbInit /\ [][NbNext]_vars

\* ======================================================================
\* Properties
\* ======================================================================
\* Both images are at least as large as the kernel.
KernelSized ==
    /\ AtLeast(occulted_image.shape, kernel.shape)
    /\ AtLeast(unocculted_image.shape, kernel.shape)

\* A call the contract accepts: kernel-sized images of one shape.
ValidCall == KernelSized /\ occulted_image.shape = unocculted_image.shape

IsConstant(img) == \A p, q \in DOMAIN img.data : img.data[p] = img.data[q]

IsZero(v) == v.kind = "finite" /\ v.sign = 0

IsNonNegative(v) == v.kind = "inf" \/ (v.kind = "finite" /\ v.sign >= 0)

Returned == pc = "returned"

\* C1: a valid call (images at least 5x5, n_annuli >= 2) returns a
\* radial_bins sequence of exactly n_annuli entries.
C1_RadialBinsLength ==
    (Returned /\ KernelSized) => Len(result.radial_bins) = n_annuli

C1_Witness ==
    /\ Returned /\ KernelSized /\ n_annuli = 3
    /\ Len(result.radial_bins) = 3
    /\ Len(result.contrast) = 3

\* C2: the returned contrast and radial_bins sequences have equal length
\* and contrast[k] is the value of the annulus whose lower edge is
\* radial_bins[k], i.e. of the pixels with bin index k.
C2_Aligned ==
    (Returned /\ ValidCall) =>
        /\ Len(result.contrast) = Len(result.radial_bins)
        /\ \A k \in 1 .. Len(result.contrast) :
               result.contrast[k] =
                   Divide(Std(occ_aperture, Masked(annuli_inds, k)), norm)

\* C3 (as stated): for every valid input (kernel-sized images of one shape,
\* norm nonzero) every returned contrast value is >= 0.
C3_NonNegative_AsStated ==
    (Returned /\ ValidCall /\ norm # 0) =>
        \A k \in 1 .. Len(result.contrast) : IsNonNegative(result.contrast[k])

\* C3 (amended): whenever the normalization constant is positive, every
\* returned contrast value is >= 0.
C3_NonNegative ==
    (Returned /\ norm > 0) =>
        \A k \in 1 .. Len(result.contrast) :
            result.contrast[k].kind = "finite" /\ result.contrast[k].sign >= 0

C3_Witness ==
    /\ Returned /\ ValidCall /\ norm > 0
    /\ \E k \in 1 .. Len(result.contrast) : result.contrast[k].sign = 1

\* C4: a uniformly constant occulted image gives contrast 0 in every
\* returned value, whatever the unocculted image, when norm is nonzero.
C4_ConstantGivesZero ==
    (Returned /\ IsConstant(occulted_image) /\ norm # 0) =>
        \A k \in 1 .. Len(result.contrast) : IsZero(result.contrast[k])

\* C5: a call with both images multiplied by the same positive constant
\* returns the same contrast values and the same radial_bins.
C5_ScaleInvariant ==
    (Returned /\ ncalls = 2 /\ scale > 1) => result = prev_result

C5_Witness ==
    /\ Returned /\ ncalls = 2 /\ scale = 2
    /\ \E k \in 1 .. Len(result.contrast) :
           result.contrast[k].kind = "finite" /\ result.contrast[k].sign # 0

\* C6: a second call with identical arguments returns the identical
\* (radial_bins, contrast) pair.
C6_SameArgsSameResult ==
    (Returned /\ ncalls = 2 /\ scale = 1) => result = prev_result

C6_Witness ==
    /\ Returned /\ ncalls = 2 /\ scale = 1
    /\ Len(result.contrast) >= 2
    /\ \E k \in 1 .. Len(result.contrast) : result.contrast[k].sign # 0

\* C7: when either image is smaller than the kernel in either dimension
\* the call is rejected: it never returns a contrast curve.
C7_RejectsUndersized ==
    (~ KernelSized) => ~ Returned

\* C8: when the two images differ in shape the call is rejected: it never
\* returns a contrast curve.
C8_RejectsMismatch ==
    (occulted_image.shape # unocculted_image.shape) => ~ Returned

\* C9: when norm is zero the call reports a failure: no contrast values
\* divided by that norm are returned.
C9_RejectsZeroNorm ==
    (Returned /\ ValidCall) => norm # 0

\* The 7x7 all-ones unocculted image has been convolved and norm taken.
OnesNormTaken ==
    /\ unocculted_image = MkImage(7, 7, 1, {})
    /\ pc \notin {"convolve_unocculted", "norm"}

\* C10 (as stated): for a 7x7 all-ones unocculted image the convolved grid
\* is 3x3 with every value 5, and norm = 5.
C10_NormIs5_AsStated ==
    OnesNormTaken =>
        /\ unocc_aperture.shape = <<3, 3>>
        /\ \A p \in DOMAIN unocc_aperture.data : unocc_aperture.data[p] = 5
        /\ norm = 5

\* C10 (amended): for a 7x7 all-ones unocculted image the convolved grid
\* is 3x3 with every value 13 (the kernel has thirteen unit weights), and
\* norm = 13.
C10_NormIs13 ==
    OnesNormTaken =>
        /\ unocc_aperture.shape = <<3, 3>>
        /\ \A p \in DOMAIN unocc_aperture.data : unocc_aperture.data[p] = 13
        /\ norm = 13

C10_Witness ==
    /\ unocculted_image = MkImage(7, 7, 1, {})
    /\ Returned
    /\ norm = 13

\* The 7x7 image of ones whose centre pixel (3, 3) is 10.
CentreTen ==
    [shape |-> <<7, 7>>,
     data |-> [p \in Pixels(<<7, 7>>) |-> IF p = <<3, 3>> THEN 10 ELSE 1]]

\* A returned call on a 7x7 all-ones unocculted image with n_annuli = 2.
ScenarioReturned ==
    /\ Returned
    /\ unocculted_image = MkImage(7, 7, 1, {})
    /\ n_annuli = 2

\* C11 (as stated): with a 7x7 all-ones unocculted image and n_annuli = 2,
\* the 7x7 occulted image of ones with centre 10 gives a nonzero contrast
\* for the inner annulus (and the all-ones occulted image gives 0).
C11_CentreNonzero_AsStated ==
    /\ (ScenarioReturned /\ occulted_image = CentreTen) =>
           ~ IsZero(result.contrast[1])
    /\ (ScenarioReturned /\ occulted_image = MkImage(7, 7, 1, {})) =>
           \A k \in 1 .. Len(result.contrast) : IsZero(result.contrast[k])

\* C11 (amended): in that scenario the occulted image with centre 10 gives
\* contrast exactly 0 for both annuli, like the all-ones occulted image:
\* every placement of the kernel covers the centre pixel, so the convolved
\* grid is uniformly 22.
C11_CentreGivesZero ==
    (ScenarioReturned /\ occulted_image \in {CentreTen, MkImage(7, 7, 1, {})}) =>
        /\ Len(result.contrast) = 2
        /\ \A k \in 1 .. 2 : IsZero(result.contrast[k])
        /\ occulted_image = CentreTen =>
               \A p \in DOMAIN occ_aperture.data : occ_aperture.data[p] = 22

C11_Witness ==
    /\ ScenarioReturned
    /\ occulted_image = CentreTen
    /\ occ_aperture.shape = <<3, 3>>
    /\ IsZero(result.contrast[1])

\* The bin indices that at least one pixel of the grid was assigned to.
Occupied == {annuli_inds.data[p] : p \in DOMAIN annuli_inds.data}

\* The k-th smallest element of a set of integers.
KthSmallest(S, k) == CHOOSE b \in S : Cardinality({c \in S : c < b}) = k - 1

\* The exact ratio of two squared radii a/b compared with the fraction e.
\* r >= edge, with r^2 = x/4 and edge^2 = e.num / (4 * e.den)
AtOrAbove(x, e) == e.num <= x * e.den

\* C16: the contrast sequence has one entry per occupied bin index, in
\* increasing bin-index order; it has at most n_annuli entries, and fewer
\* whenever some bin index in 1..n_annuli received no pixel.
C16_OneEntryPerOccupiedBin ==
    Returned =>
        /\ Len(result.contrast) = Cardinality(Occupied)
        /\ \A k \in 1 .. Len(result.contrast) :
               result.contrast[k] =
                   Divide(Std(occ_aperture,
                              Masked(annuli_inds, KthSmallest(Occupied, k))),
                          norm)
        /\ Len(result.contrast) <= n_annuli
        /\ (\E b \in 1 .. n_annuli : b \notin Occupied) =>
               Len(result.contrast) < n_annuli

C16_Witness ==
    /\ Returned /\ ValidCall
    /\ n_annuli = 4
    /\ Occupied = {2, 3, 4}
    /\ Len(result.contrast) = 3
    /\ ~ IsZero(result.contrast[1])

\* C17 (as stated): bin i holds the pixels with edge[i-1] <= r < edge[i],
\* and a pixel at (or beyond) the last edge is counted in the last interval
\* [edge[n-2], edge[n-1]), i.e. with bin index n_annuli - 1 (1-based edges:
\* radial_bins[n-1] <= r < radial_bins[n]).
C17_LastEdgeFolded_AsStated ==
    Returned =>
        \A p \in DOMAIN annuli_inds.data :
            LET i == annuli_inds.data[p]
                r == radial.data[p]
            IN  /\ i \in 1 .. n_annuli - 1
                /\ AtOrAbove(r, radial_bins[i])
                /\ (~ AtOrAbove(r, radial_bins[i + 1])
                    \/ (i = n_annuli - 1 /\ AtOrAbove(r, radial_bins[n_annuli])))

\* C17 (amended): bin i (1 <= i < n_annuli) holds the pixels with
\* edge[i-1] <= r < edge[i]; a pixel whose radius equals the last edge gets
\* bin index n_annuli, a bin of its own after the last interval; every
\* pixel of the grid has exactly one bin index, in 1..n_annuli.
C17_LastEdgeOwnBin ==
    Returned =>
        /\ DOMAIN annuli_inds.data = DOMAIN occ_aperture.data
        /\ \A p \in DOMAIN annuli_inds.data :
               LET i == annuli_inds.data[p]
                   r == radial.data[p]
               IN  /\ i \in 1 .. n_annuli
                   /\ AtOrAbove(r, radial_bins[i])
                   /\ i < n_annuli => ~ AtOrAbove(r, radial_bins[i + 1])
                   /\ i = n_annuli <=> r = ArrayMax(radial)

C17_Witness ==
    /\ Returned /\ ValidCall
    /\ n_annuli = 3
    /\ annuli_inds.data[<<0, 0>>] = 3
    /\ \E p \in DOMAIN annuli_inds.data : annuli_inds.data[p] = 2
    /\ \E p \in DOMAIN annuli_inds.data : annuli_inds.data[p] = 1

\* C18: pixel (0,0) is the only grid pixel at the maximum radial distance and
\* the only one with bin index n_annuli, so the highest occupied bin holds one
\* pixel and the last returned contrast value is exactly 0.
C18_LastValueZero ==
    Returned =>
        /\ \A p \in DOMAIN radial.data :
               radial.data[p] = ArrayMax(radial) <=> p = <<0, 0>>
        /\ Masked(annuli_inds, n_annuli) = {<<0, 0>>}
        /\ IsZero(result.contrast[Len(result.contrast)])

\* C19: radial_bins starts at 0, is strictly increasing, ends at the maximum
\* radial distance of the grid, and has equally spaced edges:
\* edge[k] = (k-1) * edge[2] with edge[2] = max radius / (n_annuli - 1).
C19_EdgesEquallySpaced ==
    Returned =>
        LET e == result.radial_bins
            n == Len(e)
        IN  /\ e[1].num = 0
            /\ \A k \in 1 .. n - 1 :
                   e[k].num * e[k + 1].den < e[k + 1].num * e[k].den
            /\ e[n].num = ArrayMax(radial) * e[n].den
            /\ e[2].num * (n_annuli - 1) * (n_annuli - 1)
                   = ArrayMax(radial) * e[2].den
            /\ \A k \in 1 .. n :
                   e[k].num * e[2].den = (k - 1) * (k - 1) * e[2].num * e[k].den

C19_Witness ==
    /\ Returned /\ ValidCall
    /\ n_annuli = 4
    /\ Len(result.radial_bins) = 4
    /\ radial.shape = <<3, 2>>
    /\ result.radial_bins[4].num = 13 * result.radial_bins[4].den

\* C20: with a nonzero norm no returned contrast value is nan: a bin without
\* pixels has no entry and a bin with exactly one pixel has the value 0.
C20_NoNaNFromOccupancy ==
    (Returned /\ norm # 0) =>
        /\ \A k \in 1 .. Len(result.contrast) : result.contrast[k].kind = "finite"
        /\ Len(result.contrast) = Cardinality({b \in 1 .. n_annuli : Masked(annuli_inds, b) # {}})
        /\ \A k \in 1 .. Len(result.contrast) :
               Cardinality(Masked(annuli_inds, KthSmallest(Occupied, k))) = 1
                   => IsZero(result.contrast[k])

C20_Witness ==
    /\ Returned /\ ValidCall /\ norm # 0
    /\ n_annuli = 4
    /\ Masked(annuli_inds, 1) = {}
    /\ Cardinality(Masked(annuli_inds, 4)) = 1
    /\ Len(result.contrast) = 3
    /\ IsZero(result.contrast[3])

\* ---- the notebooks' contrast loops --------------------------------------
\* C12: in the contrast loops every image passed to quick_contrast as
\* occulted_image or unocculted_image (occ_slope, ref_sub, unocc_slope) has
\* had its NaN pixels replaced before the call: no image with NaN pixels
\* reaches quick_contrast.
C12_SanitizedBeforeContrast ==
    qc_call # <<>> => ~qc_call[1].nan /\ ~qc_call[2].nan

\* C14: in the MIRI notebook, while a save_options() ... restore_options()
\* bracket is open the single backup still holds the options of the
\* matching save_options(), and once restore_options() has run the options
\* (wave_sampling, on_the_fly_PSFs, saturation) equal what they were at that
\* save_options(), whatever was assigned in between.
C14_BracketRestores ==
    notebook = "miri" =>
        /\ bracket_open => backup = saved_at
        /\ (~bracket_open /\ saved_at # <<>>) => options = saved_at[1]

\* The contrast loop cell has ended and the restored options differ from
\* every value the cell assigned (wave_sampling 11, on-the-fly PSFs on,
\* saturation on).
C14_Witness ==
    /\ notebook = "miri"
    /\ cell = "done"
    /\ ~bracket_open
    /\ options = saved_at[1]
    /\ options.wave_sampling # 11
    /\ ~options.on_the_fly_PSFs
    /\ ~options.saturation

\* the engine has just been given the occulted calculation
OccultedHandedOver ==
    /\ cell \in {"loop_sat_off", "loop_calc_unocc"}
    /\ engine_call.fn = "calculate_all"

\* C15: in both photon-noise notebooks the occulted calculation handed to
\* the engine in every iteration of the contrast loop has a scene with the
\* target star only.
C15_OccultedStarOnly ==
    OccultedHandedOver =>
        /\ Len(engine_call.calc.scene) = 1
        /\ engine_call.calc.scene[1].name = SceneNames(notebook)[1]

\* ======================================================================
\* Two invocations of quick_contrast running concurrently, each with its
\* own image buffers; a step is one statement of one invocation
\* ======================================================================

\* the frame of an invocation that has just been entered
Locals(occ, unocc, n) ==
    [occulted_image |-> occ, unocculted_image |-> unocc, n_annuli |-> n,
     pc |-> "convolve_unocculted", unocc_aperture |-> NoArray, norm |-> 0,
     occ_aperture |-> NoArray, radial |-> NoArray, radial_bins |-> <<>>,
     annuli_inds |-> NoArray, contrast |-> <<>>, result |-> NoResult,
     error |-> "none"]

\* Variant: the convolved unocculted image is kept in one module-level
\* buffer, so an invocation normalizes by whatever invocation 1 put there.
NormOf_SharedBuffer(l) ==
    IF inv[1].unocc_aperture = NoArray THEN Norm(l.unocc_aperture)
    ELSE Norm(inv[1].unocc_aperture)

\* norm = np.max(unocc_aperture), on the invocation's own local
NormOf(l) == Norm(l.unocc_aperture)

Raised(l, exc) == [l EXCEPT !.pc = "raised", !.error = exc]

\* The frame after the invocation's next statement.
StepOf(l) ==
    CASE l.pc = "convolve_unocculted" ->
            IF ValidModeOk(l.unocculted_image.shape, kernel.shape)
            THEN [l EXCEPT !.unocc_aperture =
                               fftconvolve(l.unocculted_image, kernel),
                           !.pc = "norm"]
            ELSE Raised(l, "ValueError")
      [] l.pc = "norm" ->
            [l EXCEPT !.norm = NormOf(l), !.pc = "convolve_occulted"]
      [] l.pc = "convolve_occulted" ->
            IF ValidModeOk(l.occulted_image.shape, kernel.shape)
            THEN [l EXCEPT !.occ_aperture =
                               fftconvolve(l.occulted_image, kernel),
                           !.pc = "radial"]
            ELSE Raised(l, "ValueError")
      [] l.pc = "radial" ->
            [l EXCEPT !.radial = RadialSq(l.unocc_aperture.shape),
                      !.pc = "radial_bins"]
      [] l.pc = "radial_bins" ->
            [l EXCEPT !.radial_bins = RadialBins(l.radial, l.n_annuli),
                      !.pc = "annuli_inds"]
      [] l.pc = "annuli_inds" ->
            [l EXCEPT !.annuli_inds = DigitizeArray(l.radial, l.radial_bins),
                      !.pc = "contrast"]
      [] l.pc = "contrast" ->
            IF MaskShapeOk(l.occ_aperture, l.annuli_inds)
            THEN [l EXCEPT !.contrast =
                               ContrastOf(l.occ_aperture, l.annuli_inds,
                                          l.norm),
                           !.pc = "return"]
            ELSE Raised(l, "IndexError")
      [] l.pc = "return" ->
            [l EXCEPT !.result = [radial_bins |-> l.radial_bins,
                                  contrast |-> l.contrast],
                      !.pc = "returned"]

\* The calls explored: a small, a middle and the largest square occulted
\* image, dark with one bright pixel or uniformly bright; the largest
\* square unocculted image, flat or with one bright pixel; the fewest and
\* the most annuli.
ParInputs ==
    {Locals(MkImage(d, d, bg, IF bg = 0 THEN {EdgePixel(d, d)} ELSE {}),
            MkImage(MaxDim, MaxDim, 1, uhot), n) :
        d \in {KernelSize - 2, KernelSize + 1, MaxDim},
        bg \in {0, MaxVal},
        uhot \in {{}, {EdgePixel(MaxDim, MaxDim)}},
        n \in {2, MaxAnnuli}}

ParInit ==
    /\ inv \in [1 .. 2 -> ParInputs]
    /\ NoSgd
    /\ NoScene
    /\ NoNotebook
    /\ QcIdle

\* invocation i executes its next statement
ParStep(i) ==
    /\ inv[i].pc \notin {"returned", "raised"}
    /\ inv' = [inv EXCEPT ![i] = StepOf(inv[i])]
    /\ UNCHANGED <<qcvars, nbvars, sgdvars, scvars>>

ParNext == \E i \in 1 .. 2 : ParStep(i)

ParSpec == ParInit /\ [][ParNext]_vars

\* ---- concurrent invocations ---------------------------------------------
\* what a call returns, or the exception it raises, when it runs alone
RunAlone(occ, unocc, n) ==
    IF ~ ValidModeOk(unocc.shape, kernel.shape)
          \/ ~ ValidModeOk(occ.shape, kernel.shape)
    THEN [error |-> "ValueError", result |-> NoResult]
    ELSE LET ua == fftconvolve(unocc, kernel)
             oa == fftconvolve(occ, kernel)
             rad == RadialSq(ua.shape)
             bins == RadialBins(rad, n)
             inds == DigitizeArray(rad, bins)
         IN  IF ~ MaskShapeOk(oa, inds)
             THEN [error |-> "IndexError", result |-> NoResult]
             ELSE [error |-> "none",
                   result |-> [radial_bins |-> bins,
                               contrast |-> ContrastOf(oa, inds, Norm(ua))]]

Finished(l) == l.pc \in {"returned", "raised"}

Outcome(l) == [error |-> l.error, result |-> l.result]

\* C13: two invocations running concurrently on separate image buffers, in
\* any interleaving of their statements, each end as they would alone: same
\* returned pair, or same exception.
C13_ConcurrentAsAlone ==
    \A i \in DOMAIN inv :
        Finished(inv[i]) =>
            Outcome(inv[i]) = RunAlone(inv[i].occulted_image,
                                       inv[i].unocculted_image,
                                       inv[i].n_annuli)

\* Invocation 2 has returned while invocation 1, called with another
\* unocculted image, is between its statements; the two normalization
\* constants differ.
C13_Witness ==
    /\ inv # <<>>
    /\ inv[2].pc = "returned"
    /\ inv[1].pc = "radial_bins"
    /\ inv[1].norm # inv[2].norm
    /\ inv[2].result.contrast # <<>>
    /\ Outcome(inv[2]) = RunAlone(inv[2].occulted_image,
                                  inv[2].unocculted_image, inv[2].n_annuli)

\* ---- the 'valid' convolution ---------------------------------------------
\* the pixels of the kernel with a nonzero weight
Aperture == {q \in Pixels(kernel.shape) : kernel.data[q] # 0}

\* the sum of the pixels of img under the aperture whose corner is at p
ApertureSum(img, p) ==
    SumOver(img, {<<p[1] + q[1], p[2] + q[2]>> : q \in Aperture}, 1)

\* out is img convolved in 'valid' mode: KernelSize - 1 pixels fewer in
\* each dimension, every value the sum under the aperture
IsValidConvolution(out, img) ==
    /\ out.shape = <<img.shape[1] - (KernelSize - 1),
                     img.shape[2] - (KernelSize - 1)>>
    /\ DOMAIN out.data = Pixels(out.shape)
    /\ \A p \in Pixels(out.shape) : out.data[p] = ApertureSum(img, p)

\* both convolutions have just been made (line 18 is next)
BothConvolved == pc = "radial"

\* C21: for images of R x C pixels with R, C >= 5 the 'valid' convolution
\* gives a grid of exactly (R-4) x (C-4) pixels, every value being the sum
\* of the input pixels under the kernel's nonzero weights centred on the
\* corresponding input pixel; the occulted and the unocculted image are
\* convolved with the same kernel.
C21_ValidConvolution ==
    (BothConvolved /\ KernelSized) =>
        /\ IsValidConvolution(unocc_aperture, unocculted_image)
        /\ IsValidConvolution(occ_aperture, occulted_image)

\* Both images are convolved, the occulted one is not square and its
\* convolved grid is not uniform.
C21_Witness ==
    /\ BothConvolved /\ KernelSized
    /\ occulted_image.shape = <<6, 7>>
    /\ occ_aperture.shape = <<2, 3>>
    /\ ~ IsConstant(occ_aperture)
    /\ IsValidConvolution(occ_aperture, occulted_image)

\* ======================================================================
\* A call of quick_contrast made from inside the MIRI contrast loop: the
\* globals are those of the first iteration, just before the second call
\* (line 593); the curve of the first call (line 592) is kept by the caller
\* ======================================================================

\* the options the loop cell has set when quick_contrast is called
LoopOptions ==
    [wave_sampling |-> 11, on_the_fly_PSFs |-> TRUE, saturation |-> TRUE]

\* the heap after the ngroup sweep from ngroup g on
RECURSIVE SweepHeap(_, _, _)
SweepHeap(h, cfg, g) ==
    IF g > MaxNGroup THEN h
    ELSE SweepHeap(SweepStep(h, cfg, g).heap, cfg, g + 1)

\* The heap and the calculations in the first iteration of the MIRI
\* loop: config, the copies of the ngroup sweep, occulted = deepcopy(config) less the companion,
\* unocculted = deepcopy(occulted) moved off the mask, exposures set.
LoopCalcs(ta, sat) ==
    LET h0 == BuiltHeap("miri", ta, sat)
        hs == SweepHeap(h0, Len(h0), FirstNGroup)
        o == deepcopy(hs, Len(h0))
        u == deepcopy(PopLast(o.heap, o.ref), o.ref)
        h1 == SetOffset(u.heap, u.ref, 8, 8)
    IN  [heap |-> SetExposure(SetExposure(h1, o.ref, FirstNGroup, 1),
                              u.ref, 200, 10),
         config |-> Len(h0), occulted |-> o.ref, unocculted |-> u.ref,
         current_config |-> Len(hs)]

CallInit ==
    /\ notebook = "miri"
    /\ cell = "loop_contrast_refsub"
    /\ options = LoopOptions
    /\ \E opts \in [wave_sampling : WaveSamplings,
                     on_the_fly_PSFs : BOOLEAN, saturation : BOOLEAN] :
           /\ backup = save_options(opts)
           /\ saved_at = <<opts>>
    /\ bracket_open = TRUE
    /\ \E ta \in TAErrors, sat \in BOOLEAN :
           LET c == LoopCalcs(ta, sat)
           IN  /\ heap = c.heap
               /\ config = c.config
               /\ current_config = c.current_config
               /\ occulted = c.occulted
               /\ unocculted = c.unocculted
    /\ ngroup = FirstNGroup
    /\ engine_call = [fn |-> "calculate_target",
                      calc |-> Contents(heap, unocculted),
                      options |-> set_saturation(LoopOptions, FALSE)]
    /\ occ_slope = Image(FALSE)
    /\ unocc_slope = Image(FALSE)
    /\ ref_slope = Image(FALSE)
    /\ ref_sub = Image(FALSE)
    /\ qc_call = <<occ_slope, unocc_slope>>
    /\ \E l \in ParInputs :
           /\ occulted_image = l.occulted_image
           /\ unocculted_image = l.unocculted_image
           /\ n_annuli = l.n_annuli
           /\ prev_result = RunAlone(MkImage(MaxDim, MaxDim, 1, {}),
                                     l.unocculted_image, l.n_annuli).result
    /\ pc = "convolve_unocculted"
    /\ unocc_aperture = NoArray
    /\ norm = 0
    /\ occ_aperture = NoArray
    /\ radial = NoArray
    /\ radial_bins = <<>>
    /\ annuli_inds = NoArray
    /\ contrast = <<>>
    /\ result = NoResult
    /\ error = "none"
    /\ ncalls = 2
    /\ scale = 1
    /\ inv = <<>>
    /\ NoSgd
    /\ NoScene

CallNext ==
    \/ ConvolveUnocculted
    \/ Normalize
    \/ ConvolveOcculted
    \/ ComputeRadial
    \/ ComputeBins
    \/ ComputeAnnuli
    \/ ComputeContrast
    \/ Return

CallSpec == CallInit /\ [][CallNext]_vars

\* ---- frame of a call -----------------------------------------------------
\* C22: a call of quick_contrast leaves both input images and every global
\* (the options and their backup, the calculation dictionaries, the images
\* of the loop, the curve returned before) unchanged in each of its steps;
\* the returned pair is set by the return statement only.
C22_CallLeavesGlobals ==
    [][/\ UNCHANGED <<occulted_image, unocculted_image, n_annuli>>
       /\ UNCHANGED <<nbvars, sgdvars, scvars, inv, prev_result>>
       /\ (result' # result => pc = "return")]_vars

\* The call has returned a curve inside the loop, where the options are
\* modified, a backup is kept and an earlier curve is held.
C22_Witness ==
    /\ pc = "returned"
    /\ result.contrast # <<>>
    /\ prev_result.contrast # <<>>
    /\ notebook = "miri"
    /\ options = LoopOptions
    /\ backup # <<>>
    /\ Len(Contents(heap, occulted).scene) = 1
    /\ Len(Contents(heap, config).scene) = 2

\* ---- saturation around the engine calls of the MIRI loop --------------
\* the engine has just been given the occulted calculation by the loop
LoopOccultedCalled ==
    /\ cell \in {"loop_sat_off", "failed_loop_calc_occ"}
    /\ engine_call.fn = "calculate_all"

LoopUnoccultedCalled == engine_call.fn = "calculate_target"

\* C23: in the MIRI contrast loop every calculate_target(unocculted) call
\* runs while saturation is disabled and every calculate_all(occulted) call
\* runs while saturation is enabled, in every iteration including the
\* first.
C23_SaturationPerCall ==
    notebook = "miri" =>
        /\ LoopUnoccultedCalled => ~ engine_call.options.saturation
        /\ LoopOccultedCalled => engine_call.options.saturation

\* ---- an engine failure inside a bracket ---------------------------------
Failed ==
    cell \in {"failed_run_calc", "failed_loop_calc_occ",
              "failed_loop_calc_unocc"}

\* C24: in the MIRI notebook, when an engine call fails between
\* save_options() and restore_options(), restore_options() is not executed:
\* the bracket stays open, the backup is untouched and the options keep the
\* values the cell assigned (on_the_fly_PSFs = True, wave_sampling 21 in
\* the engine run cell and 11 in the loop cell, saturation disabled when
\* the unocculted calculation failed).
C24_FailureLeavesOptions ==
    (notebook = "miri" /\ Failed) =>
        /\ bracket_open
        /\ backup = saved_at
        /\ options.on_the_fly_PSFs
        /\ options.wave_sampling =
               (IF cell = "failed_run_calc" THEN 21 ELSE 11)
        /\ cell = "failed_loop_calc_unocc" => ~ options.saturation

\* The unocculted calculation has failed in the loop; the options saved at
\* the start of the cell had the default sampling, cached PSFs and
\* saturation on, and all three are now different.
C24_Witness ==
    /\ notebook = "miri"
    /\ cell = "failed_loop_calc_unocc"
    /\ saved_at = <<[wave_sampling |-> 150, on_the_fly_PSFs |-> FALSE,
                     saturation |-> TRUE]>>
    /\ options = [wave_sampling |-> 11, on_the_fly_PSFs |-> TRUE,
                  saturation |-> FALSE]

\* ======================================================================
\* The small-grid-dither notebook: the SGD calculations and the
\* on-the-fly PSF cell.  Offsets are in hundredths of an arcsecond.
\* ======================================================================

\* ---- bounds and constants --------------------------------------------
\* number of dither points explored (create_SGD gives a 9-point grid)
MaxDither == 3
\* stepsize=20.e-3 arcsec
StepSize == 2
\* side of the square dither grid
GridSide == 3

\* a calculation dictionary with its ['strategy']['psf_subtraction_source']
SgdCalcObj(scene, reference) ==
    [kind |-> "calc", scene |-> scene, ngroup |-> 0, nint |-> 0,
     saturation |-> TRUE, reference |-> reference]

\* The heap once the scene is built and the target acquisition errors are
\* added: target, planet_a, planet_b, the reference, the scene list, config.
SgdBuiltHeap(ta, ta_ref) ==
    <<Source("target", ta, ta),
      Source("planet_a", 45 + ta, ta - 61),
      Source("planet_b", ta - 75, 102 + ta),
      Source("reference", ta_ref, ta_ref),
      ListObj(<<1, 2, 3>>),
      SgdCalcObj(5, 4)>>

\* Variant: copy.copy, a new dictionary that shares the scene list and the
\* reference source with the original.
SgdDeepCopy_Shallow(h, r) == [heap |-> h \o <<h[r]>>, ref |-> Len(h) + 1]

\* copy.deepcopy of such a dictionary: fresh sources, a fresh reference
\* source, a fresh scene list and a fresh dictionary.
SgdDeepCopy(h, r) ==
    LET items == h[h[r].scene].items
        k == Len(items)
        base == Len(h)
    IN  [heap |-> h \o [i \in 1 .. k |-> h[items[i]]]
                    \o <<h[h[r].reference]>>
                    \o <<ListObj([i \in 1 .. k |-> base + i])>>
                    \o <<[h[r] EXCEPT !.scene = base + k + 2,
                                      !.reference = base + k + 1]>>,
         ref |-> base + k + 3]

\* pancake.scene.create_SGD(ta_error=False, stepsize=...): the points of a
\* square grid around the origin, row by row
create_SGD(stepsize) ==
    [k \in 1 .. MaxDither |->
        <<(((k - 1) % GridSide) - 1) * stepsize,
          ((((k - 1) \div GridSide) % GridSide) - 1) * stepsize>>]

\* pancake.scene.offset_scene(sources, dx, dy): every source of the list
\* is moved by (dx, dy), in place
offset_scene(h, sources, dx, dy) ==
    [i \in DOMAIN h |->
        IF i \in sources
        THEN [h[i] EXCEPT !.x_offset = @ + dx, !.y_offset = @ + dy]
        ELSE h[i]]

\* options.current_options read: a dictionary describing the current state
current_options(opts) ==
    [wave_sampling |-> opts.wave_sampling,
     on_the_fly_PSFs |-> opts.on_the_fly_PSFs,
     saturation |-> opts.saturation]

\* options.current_options = d: the options take the values of d
set_current_options(opts, d) ==
    [opts EXCEPT !.wave_sampling = d.wave_sampling,
                 !.on_the_fly_PSFs = d.on_the_fly_PSFs,
                 !.saturation = d.saturation]

\* what such a calculation dictionary says, read through its references
SgdContents(h, r) ==
    LET items == h[h[r].scene].items
    IN  [scene |-> [i \in 1 .. Len(items) |-> h[items[i]]],
         reference |-> h[h[r].reference]]

\* an engine result, reduced to what the engine was given
SgdResult(fn, r) ==
    [fn |-> fn, given |-> r, calc |-> SgdContents(heap, r),
     options |-> options]

SgdInit ==
    /\ notebook = "sgd"
    /\ cell = "create_sgd"
    /\ options \in [wave_sampling : WaveSamplings, on_the_fly_PSFs : BOOLEAN,
                    saturation : BOOLEAN]
    /\ backup = <<>>
    /\ bracket_open = FALSE
    /\ saved_at = <<>>
    /\ \E ta \in TAErrors, ta_ref \in TAErrors :
           heap = SgdBuiltHeap(ta, ta_ref)
    /\ config = Len(heap)
    /\ occulted = 0
    /\ unocculted = 0
    /\ current_config = 0
    /\ ngroup = 0
    /\ engine_call = NoCall
    /\ occ_slope = NoImage
    /\ unocc_slope = NoImage
    /\ ref_slope = NoImage
    /\ ref_sub = NoImage
    /\ qc_call = <<>>
    /\ QcIdle
    /\ inv = <<>>
    /\ NoSgd
    /\ NoScene

\* sgds = pancake.scene.create_SGD(...); sgd_configs = []
SgdCreate ==
    /\ cell = "create_sgd"
    /\ sgds' = create_SGD(StepSize)
    /\ sgd_configs' = <<>>
    /\ cell' = "sgd_loop"
    /\ UNCHANGED <<notebook, optvars, calcvars, ngroup, engine_call, imgvars>>
    /\ UNCHANGED <<initial_options, otf_options, otf_targ_results,
                   otf_sgd_results>>
    /\ UNCHANGED <<qcvars, scvars, inv>>

\* for s in sgds: current_config = deepcopy(config); its reference source
\* is moved by s; sgd_configs.append(current_config)
SgdConfigure ==
    /\ cell = "sgd_loop"
    /\ IF Len(sgd_configs) < Len(sgds)
       THEN LET s == sgds[Len(sgd_configs) + 1]
                c == SgdDeepCopy(heap, config)
            IN  /\ heap' = offset_scene(c.heap, {c.heap[c.ref].reference},
                                        s[1], s[2])
                /\ sgd_configs' = Append(sgd_configs, c.ref)
                /\ UNCHANGED cell
       ELSE /\ cell' = "otf_begin"
            /\ UNCHANGED <<heap, sgd_configs>>
    /\ UNCHANGED <<notebook, optvars, config, occulted, unocculted,
                   current_config, ngroup,
                   engine_call, imgvars>>
    /\ UNCHANGED <<sgds, initial_options, otf_options, otf_targ_results,
                   otf_sgd_results>>
    /\ UNCHANGED <<qcvars, scvars, inv>>

\* options = pancake.engine.options; initial_options = options.current_options;
\* options.wave_sampling = 21; options.on_the_fly_PSFs = True;
\* otf_options = options.current_options
OtfBegin ==
    /\ cell = "otf_begin"
    /\ initial_options' = current_options(options)
    /\ options' = [options EXCEPT !.wave_sampling = 21,
                                  !.on_the_fly_PSFs = TRUE]
    /\ otf_options' = current_options(options')
    /\ cell' = "otf_target"
    /\ UNCHANGED <<notebook, backup, bracket_open, saved_at, calcvars,
                   ngroup, engine_call, imgvars>>
    /\ UNCHANGED <<sgds, sgd_configs, otf_targ_results, otf_sgd_results>>
    /\ UNCHANGED <<qcvars, scvars, inv>>

\* otf_targ_results = pancake.engine.calculate_target(config);
\* otf_sgd_results = []
OtfTarget ==
    /\ cell = "otf_target"
    /\ otf_targ_results' = SgdResult("calculate_target", config)
    /\ engine_call' = SgdResult("calculate_target", config)
    /\ otf_sgd_results' = <<>>
    /\ cell' = "otf_loop"
    /\ UNCHANGED <<notebook, optvars, calcvars, ngroup, imgvars>>
    /\ UNCHANGED <<sgds, sgd_configs, initial_options, otf_options>>
    /\ UNCHANGED <<qcvars, scvars, inv>>

\* for i, s in enumerate(sgd_configs):
\*     otf_sgd_results.append(pancake.engine.calculate_reference(s))
OtfReference ==
    /\ cell = "otf_loop"
    /\ IF Len(otf_sgd_results) < Len(sgd_configs)
       THEN LET s == sgd_configs[Len(otf_sgd_results) + 1]
            IN  /\ engine_call' = SgdResult("calculate_reference", s)
                /\ otf_sgd_results' =
                       Append(otf_sgd_results,
                              SgdResult("calculate_reference", s))
                /\ UNCHANGED cell
       ELSE /\ cell' = "otf_restore"
            /\ UNCHANGED <<engine_call, otf_sgd_results>>
    /\ UNCHANGED <<notebook, optvars, calcvars, ngroup, imgvars>>
    /\ UNCHANGED <<sgds, sgd_configs, initial_options, otf_options,
                   otf_targ_results>>
    /\ UNCHANGED <<qcvars, scvars, inv>>

\* Variant: the options read after the changes are assigned back.
OtfRestore_OtfOptions ==
    /\ cell = "otf_restore"
    /\ options' = set_current_options(options, otf_options)
    /\ cell' = "done"
    /\ UNCHANGED <<notebook, backup, bracket_open, saved_at, calcvars,
                   ngroup, engine_call, imgvars>>
    /\ UNCHANGED sgdvars
    /\ UNCHANGED <<qcvars, scvars, inv>>

\* options.current_options = initial_options
OtfRestore ==
    /\ cell = "otf_restore"
    /\ options' = set_current_options(options, initial_options)
    /\ cell' = "done"
    /\ UNCHANGED <<notebook, backup, bracket_open, saved_at, calcvars,
                   ngroup, engine_call, imgvars>>
    /\ UNCHANGED sgdvars
    /\ UNCHANGED <<qcvars, scvars, inv>>

SgdNext ==
    \/ SgdCreate
    \/ SgdConfigure
    \/ OtfBegin
    \/ OtfTarget
    \/ OtfReference
    \/ OtfRestore

SgdSpec == SgdInit /\ [][SgdNext]_vars

\* ---- the on-the-fly cell of the dither notebook ------------------------
OnTheFly(opts) == opts.wave_sampling = 21 /\ opts.on_the_fly_PSFs

\* C25: after the on-the-fly cell has assigned
\* options.current_options = initial_options, wave_sampling and
\* on_the_fly_PSFs equal the values read into initial_options at the start
\* of the cell, and the target calculation and every SGD reference
\* calculation made in between ran with wave_sampling = 21 and
\* on_the_fly_PSFs = True.
C25_OptionsPutBack ==
    /\ (notebook = "sgd" /\ cell = "done") =>
           /\ options.wave_sampling = initial_options.wave_sampling
           /\ options.on_the_fly_PSFs = initial_options.on_the_fly_PSFs
           /\ OnTheFly(otf_targ_results.options)
           /\ Len(otf_sgd_results) = Len(sgd_configs)
    /\ \A i \in DOMAIN otf_sgd_results : OnTheFly(otf_sgd_results[i].options)

\* The cell has ended after a calculation for every dither point; it
\* started with the default sampling and cached PSFs, which are back.
C25_Witness ==
    /\ notebook = "sgd" /\ cell = "done"
    /\ Len(otf_sgd_results) = Len(sgds) /\ Len(sgds) > 1
    /\ initial_options.wave_sampling = 150
    /\ ~ initial_options.on_the_fly_PSFs
    /\ options.wave_sampling = 150
    /\ ~ options.on_the_fly_PSFs
    /\ otf_options.wave_sampling = 21

\* ---- the SGD calculations -------------------------------------------------
\* the objects a calculation dictionary is made of
ObjectsOf(h, r) ==
    {r, h[r].scene, h[r].reference}
        \cup {h[h[r].scene].items[i] : i \in DOMAIN h[h[r].scene].items}

Moved(src, s) ==
    [src EXCEPT !.x_offset = @ + s[1], !.y_offset = @ + s[2]]

\* C28: sgd_configs holds one calculation per dither point of sgds, in the
\* same order; each is made of objects of its own (shared neither with
\* config nor with another SGD calculation), has config's scene and config's
\* reference source moved by its dither point; config is as it was built;
\* otf_sgd_results has one result per SGD calculation, in the same order.
C28_SgdConfigs ==
    (notebook = "sgd" /\ cell # "create_sgd") =>
        /\ Len(sgd_configs) <= Len(sgds)
        /\ cell # "sgd_loop" => Len(sgd_configs) = Len(sgds)
        /\ \E ta \in TAErrors, ta_ref \in TAErrors :
               SubSeq(heap, 1, config) = SgdBuiltHeap(ta, ta_ref)
        /\ \A i \in DOMAIN sgd_configs :
               /\ SgdContents(heap, sgd_configs[i]).scene
                      = SgdContents(heap, config).scene
               /\ SgdContents(heap, sgd_configs[i]).reference
                      = Moved(SgdContents(heap, config).reference, sgds[i])
               /\ ObjectsOf(heap, sgd_configs[i])
                      \cap ObjectsOf(heap, config) = {}
               /\ \A j \in DOMAIN sgd_configs :
                      j # i => ObjectsOf(heap, sgd_configs[i])
                                  \cap ObjectsOf(heap, sgd_configs[j]) = {}
        /\ Len(otf_sgd_results) <= Len(sgd_configs)
        /\ cell \in {"otf_restore", "done"} =>
               Len(otf_sgd_results) = Len(sgd_configs)
        /\ \A i \in DOMAIN otf_sgd_results :
               otf_sgd_results[i].given = sgd_configs[i]

\* Every dither point has its calculation and its result; the first two
\* reference sources are at different places, both away from config's.
C28_Witness ==
    /\ notebook = "sgd" /\ cell = "done"
    /\ Len(sgd_configs) = Len(sgds) /\ Len(sgds) > 1
    /\ Len(otf_sgd_results) = Len(sgds)
    /\ SgdContents(heap, sgd_configs[1]).reference
           # SgdContents(heap, sgd_configs[2]).reference
    /\ SgdContents(heap, sgd_configs[1]).reference
           # SgdContents(heap, config).reference
    /\ otf_sgd_results[2].calc.reference
           = SgdContents(heap, sgd_configs[2]).reference

\* ---- the base configuration ----------------------------------------------
\* C26: config is never changed by the ngroup sweep, by building occulted
\* and unocculted or by the contrast loop: at every point of either
\* photon-noise notebook the objects of config (its scene list, its sources
\* and their positions, its ngroup and nint) are as they were built.
C26_ConfigUnchanged ==
    notebook \in {"miri", "nircam"} =>
        /\ \E ta \in TAErrors, sat \in BOOLEAN :
               SubSeq(heap, 1, config) = BuiltHeap(notebook, ta, sat)
        /\ Len(Contents(heap, config).scene) = Len(SceneNames(notebook))
        /\ Contents(heap, config).ngroup = InitialNGroup(notebook)
        /\ Contents(heap, config).nint = 1

\* The MIRI notebook has run to its end: the sweep made its last copy, the
\* companion was popped from occulted, unocculted was moved, the loop set
\* the exposures; config still has both sources and its own ngroup.
C26_Witness ==
    /\ notebook = "miri" /\ cell = "done"
    /\ Contents(heap, current_config).ngroup = MaxNGroup
    /\ Len(Contents(heap, occulted).scene) = 1
    /\ Contents(heap, occulted).ngroup = MaxNGroup
    /\ Contents(heap, unocculted).scene[1].x_offset
           = Contents(heap, config).scene[1].x_offset + 8
    /\ Contents(heap, unocculted).ngroup = 200
    /\ Len(Contents(heap, config).scene) = 2
    /\ Contents(heap, config).ngroup = 10

\* ---- the NIRCam unocculted calculation -----------------------------------
\* C27: in the NIRCam notebook the unocculted calculation handed to the
\* engine in an iteration of the contrast loop has its saturation effect
\* disabled.
C27_UnoccultedUnsaturated ==
    (notebook = "nircam" /\ engine_call.fn = "calculate_contrast")
        => ~engine_call.calc.saturation

\* ======================================================================
\* Scene construction: the cells of the three notebooks that build
\* config['scene'] and the PSF-subtraction reference.  Every dictionary is
\* an object of scene_heap; a source holds a reference to its 'spectrum'
\* dictionary, which holds references to its 'normalization' and 'sed'
\* dictionaries.  Fluxes are in tenths of a magnitude, positions in
\* milli-arcseconds; a key that is absent has the value "none" or 0.
\* ======================================================================

\* ---- bounds -----------------------------------------------------------
\* ids the template's two sources can carry
MaxTemplateId == 3
\* normalization fluxes the template's two sources can carry
MaxTemplateFlux == 2

TemplateIds == 1 .. MaxTemplateId
TemplateFluxes == 1 .. MaxTemplateFlux

\* ---- dictionaries ------------------------------------------------------
SourceObj(id, spectrum, x, y) ==
    [kind |-> "source", id |-> id, spectrum |-> spectrum,
     x_offset |-> x, y_offset |-> y]

SpectrumObj(n, s) == [kind |-> "spectrum", normalization |-> n, sed |-> s]

NormObj(type, bandpass, flux) ==
    [kind |-> "normalization", type |-> type, bandpass |-> bandpass,
     norm_flux |-> flux]

SedObj(sed_type, key, temp) ==
    [kind |-> "sed", sed_type |-> sed_type, key |-> key, temp |-> temp]

\* a source of the template, with its own dictionaries, added to h
TemplateSource(h, id, flux) ==
    LET b == Len(h)
    IN  h \o <<NormObj("template", "template", flux),
               SedObj("template", "template", 0),
               SpectrumObj(b + 1, b + 2),
               SourceObj(id, b + 3, 0, 0)>>

\* build_default_calc('jwst', ..., 'coronagraphy'): a scene of one star
\* and the PSF-subtraction reference
TemplateHeap(id, flux, ref_id, ref_flux) ==
    TemplateSource(TemplateSource(<<>>, id, flux), ref_id, ref_flux)

NormRef(h, r) == h[h[r].spectrum].normalization
SedRef(h, r) == h[h[r].spectrum].sed

\* ---- statements ----------------------------------------------------------
\* Variant: no copy is made, the new name is bound to the same source.
deepcopy_source_Alias(h, r) == [heap |-> h, ref |-> r]

\* deepcopy(src['spectrum']): fresh spectrum, normalization and sed
deepcopy_spectrum(h, s) ==
    LET b == Len(h)
    IN  [heap |-> h \o <<h[h[s].normalization], h[h[s].sed],
                         SpectrumObj(b + 1, b + 2)>>,
         ref |-> b + 3]

\* deepcopy(src): a fresh source with fresh dictionaries below it
deepcopy_source(h, r) ==
    LET c == deepcopy_spectrum(h, h[r].spectrum)
    IN  [heap |-> c.heap \o <<[h[r] EXCEPT !.spectrum = c.ref]>>,
         ref |-> Len(c.heap) + 1]

\* src[k] = v
SetItem(h, r, k, v) == [h EXCEPT ![r][k] = v]

\* src['spectrum']['normalization'][k] = v, written in place
SetNorm(h, r, k, v) == [h EXCEPT ![NormRef(h, r)][k] = v]

\* src['spectrum']['sed'][k] = v, written in place (del: v = "none")
SetSed(h, r, k, v) == [h EXCEPT ![SedRef(h, r)][k] = v]

\* src['spectrum'] = {...}: the source gets a new spectrum dictionary
NewSpectrum(h, r) ==
    [h \o <<SpectrumObj(0, 0)>> EXCEPT ![r].spectrum = Len(h) + 1]

\* src['spectrum']['normalization'] = {...}: a new dictionary
NewNorm(h, r, type, bandpass) ==
    [h \o <<NormObj(type, bandpass, 0)>>
        EXCEPT ![h[r].spectrum].normalization = Len(h) + 1]

\* src['spectrum']['sed'] = {...}: a new dictionary
NewSed(h, r, sed_type, key) ==
    [h \o <<SedObj(sed_type, key, 0)>>
        EXCEPT ![h[r].spectrum].sed = Len(h) + 1]

\* src['position']['x_offset'] = x; src['position']['y_offset'] = y
SetPosition(h, r, x, y) == [h EXCEPT ![r].x_offset = x, ![r].y_offset = y]

\* pancake.scene.rotate_scene(sources, 35., center=[0., 0.]): every source
\* of the list is turned about the origin (cos 35 = 0.819, sin 35 = 0.574)
rotate_scene(h, sources) ==
    [i \in DOMAIN h |->
        IF i \in sources
        THEN [h[i] EXCEPT
                 !.x_offset = (819 * h[i].x_offset - 574 * h[i].y_offset)
                                  \div 1000,
                 !.y_offset = (574 * h[i].x_offset + 819 * h[i].y_offset)
                                  \div 1000]
        ELSE h[i]]

\* the references held by a list
Items(l) == {l[i] : i \in DOMAIN l}

\* ---- the cells ----------------------------------------------------------
\* the step that follows step c of notebook nb
SceneAfter(nb, c) ==
    IF nb = "miri"
    THEN CASE c = "target" -> "planetA"
           [] c = "planetA" -> "offset"
           [] c = "offset" -> "reference"
           [] OTHER -> "built"
    ELSE IF nb = "nircam"
    THEN CASE c = "target" -> "planetA"
           [] c = "planetA" -> "planetB"
           [] c = "planetB" -> "offset"
           [] c = "offset" -> "reference"
           [] OTHER -> "built"
    ELSE CASE c = "sgd_target" -> "sgd_copies"
           [] c = "sgd_copies" -> "target"
           [] c = "target" -> "reference"
           [] c = "reference" -> "planetA"
           [] c = "planetA" -> "planetB"
           [] c = "planetB" -> "offset"
           [] OTHER -> "built"

\* config = build_default_calc(...): the template is loaded
SceneInit ==
    /\ scene_nb \in {"miri", "nircam", "sgd"}
    /\ scene_cell = IF scene_nb = "sgd" THEN "sgd_target" ELSE "target"
    /\ \E id \in TemplateIds, ref_id \in TemplateIds,
          flux \in TemplateFluxes, ref_flux \in TemplateFluxes :
           scene_heap = TemplateHeap(id, flux, ref_id, ref_flux)
    /\ config_scene = <<4>>
    /\ psf_subtraction_source = 8
    /\ targetstar = 0
    /\ planetA = 0
    /\ planetB = 0
    /\ refstar = 0
    /\ NoNotebook
    /\ NoSgd
    /\ QcIdle
    /\ inv = <<>>

\* dither notebook: target = deepcopy(config['scene'][0]) and its new 'sed'
\* and 'normalization' dictionaries
SgdTarget ==
    /\ scene_nb = "sgd" /\ scene_cell = "sgd_target"
    /\ LET c == deepcopy_source(scene_heap, config_scene[1])
           h1 == NewSed(c.heap, c.ref, "phoenix", "b3v")
       IN  /\ targetstar' = c.ref
           /\ scene_heap' = NewNorm(h1, c.ref, "jwst", "none")
    /\ scene_cell' = SceneAfter(scene_nb, scene_cell)
    /\ UNCHANGED <<scene_nb, config_scene, psf_subtraction_source, planetA,
                   planetB, refstar>>
    /\ UNCHANGED <<qcvars, nbvars, sgdvars, inv>>

\* dither notebook: reference = config['strategy']['psf_subtraction_source']
\* and its new dictionaries; planet_a = deepcopy(target) and its new
\* dictionaries; planet_b = deepcopy(planet_a)
SgdCopies ==
    /\ scene_nb = "sgd" /\ scene_cell = "sgd_copies"
    /\ LET r == psf_subtraction_source
           h1 == NewSed(scene_heap, r, "phoenix", "b1v")
           h2 == NewNorm(h1, r, "jwst", "none")
           a == deepcopy_source(h2, targetstar)
           h3 == NewSed(a.heap, a.ref, "blackbody", "none")
           h4 == NewNorm(h3, a.ref, "jwst", "none")
           b == deepcopy_source(h4, a.ref)
       IN  /\ refstar' = r
           /\ planetA' = a.ref
           /\ planetB' = b.ref
           /\ scene_heap' = b.heap
    /\ scene_cell' = SceneAfter(scene_nb, scene_cell)
    /\ UNCHANGED <<scene_nb, config_scene, psf_subtraction_source,
                   targetstar>>
    /\ UNCHANGED <<qcvars, nbvars, sgdvars, inv>>

\* the target star: id 1, its normalization and its sed (the MIRI notebook
\* gives it a new 'spectrum' dictionary; the dither notebook makes the
\* scene the list of the target alone)
SceneTarget ==
    /\ scene_cell = "target"
    /\ LET t == IF scene_nb = "sgd" THEN targetstar ELSE config_scene[1]
           h == scene_heap
       IN  /\ targetstar' = t
           /\ scene_heap' =
                IF scene_nb = "miri"
                THEN LET h1 == SetItem(h, t, "id", 1)
                         h2 == NewSpectrum(h1, t)
                         h3 == NewNorm(h2, t, "photsys", "johnson,j")
                         h4 == SetNorm(h3, t, "norm_flux", 47)
                     IN  NewSed(h4, t, "phoenix", "a5v")
                ELSE IF scene_nb = "nircam"
                THEN LET h1 == NewNorm(h, t, "photsys", "johnson,j")
                         h2 == SetNorm(h1, t, "norm_flux", 100)
                         h3 == NewSed(h2, t, "phoenix", "none")
                         h4 == SetSed(h3, t, "key", "a5v")
                     IN  SetItem(h4, t, "id", 1)
                ELSE LET h1 == SetItem(h, t, "id", 1)
                         h2 == SetNorm(h1, t, "bandpass", "miri,imaging,f560w")
                     IN  SetNorm(h2, t, "norm_flux", 120)
           /\ config_scene' = IF scene_nb = "sgd" THEN <<t>> ELSE config_scene
    /\ scene_cell' = SceneAfter(scene_nb, scene_cell)
    /\ UNCHANGED <<scene_nb, psf_subtraction_source, planetA, planetB,
                   refstar>>
    /\ UNCHANGED <<qcvars, nbvars, sgdvars, inv>>

\* the first companion: planetA = deepcopy(targetstar), id 2, its
\* normalization, its sed and its position (MIRI appends it to the scene;
\* the dither notebook made the copy before and appends it here)
ScenePlanetA ==
    /\ scene_cell = "planetA"
    /\ LET c == IF scene_nb = "sgd" THEN [heap |-> scene_heap, ref |-> planetA]
                ELSE deepcopy_source(scene_heap, targetstar)
           p == c.ref
           h1 == SetItem(c.heap, p, "id", 2)
       IN  /\ planetA' = p
           /\ scene_heap' =
                IF scene_nb = "sgd"
                THEN LET h2 == SetSed(h1, p, "temp", 900)
                         h3 == SetNorm(h2, p, "bandpass", "miri,imaging,f560w")
                         h4 == SetNorm(h3, p, "norm_flux", 158)
                     IN  SetPosition(h4, p, 450, -610)
                ELSE LET h2 == SetNorm(h1, p, "bandpass",
                                       IF scene_nb = "miri"
                                       THEN "miri,imaging,f1500w"
                                       ELSE "nircam,sw_imaging,f210m")
                         h3 == SetNorm(h2, p, "norm_flux",
                                       IF scene_nb = "miri" THEN 153 ELSE 165)
                         h4 == SetNorm(h3, p, "type", "jwst")
                         h5 == SetSed(h4, p, "sed_type", "blackbody")
                         h6 == SetSed(h5, p, "temp", 900)
                         h7 == SetSed(h6, p, "key", "none")
                     IN  IF scene_nb = "miri"
                         THEN SetPosition(h7, p, 2300, 3100)
                         ELSE SetPosition(h7, p, 406, -1263)
           /\ config_scene' = IF scene_nb = "nircam" THEN config_scene
                              ELSE Append(config_scene, p)
    /\ scene_cell' = SceneAfter(scene_nb, scene_cell)
    /\ UNCHANGED <<scene_nb, psf_subtraction_source, targetstar, planetB,
                   refstar>>
    /\ UNCHANGED <<qcvars, nbvars, sgdvars, inv>>

\* the second companion: id 3 and its position; NIRCam makes it by
\* planetB = deepcopy(planetA) and extends the scene by both companions,
\* the dither notebook sets its spectrum too and appends it
ScenePlanetB ==
    /\ scene_cell = "planetB"
    /\ LET c == IF scene_nb = "sgd" THEN [heap |-> scene_heap, ref |-> planetB]
                ELSE deepcopy_source(scene_heap, planetA)
           p == c.ref
           h1 == SetItem(c.heap, p, "id", 3)
       IN  /\ planetB' = p
           /\ scene_heap' =
                IF scene_nb = "sgd"
                THEN LET h2 == SetSed(h1, p, "temp", 800)
                         h3 == SetNorm(h2, p, "bandpass", "miri,imaging,f560w")
                         h4 == SetNorm(h3, p, "norm_flux", 166)
                     IN  SetPosition(h4, p, -750, 1020)
                ELSE SetPosition(h1, p, -306, -530)
           /\ config_scene' = IF scene_nb = "sgd" THEN Append(config_scene, p)
                              ELSE config_scene \o <<planetA, p>>
    /\ scene_cell' = SceneAfter(scene_nb, scene_cell)
    /\ UNCHANGED <<scene_nb, psf_subtraction_source, targetstar, planetA,
                   refstar>>
    /\ UNCHANGED <<qcvars, nbvars, sgdvars, inv>>

\* the target acquisition error added to the scene (MIRI and NIRCam rotate
\* the scene first; the dither notebook adds an error to the reference as
\* well)
SceneOffset ==
    /\ scene_cell = "offset"
    /\ \E errx \in TAErrors, erry \in TAErrors :
         LET h1 == IF scene_nb = "sgd" THEN scene_heap
                   ELSE rotate_scene(scene_heap, Items(config_scene))
             h2 == offset_scene(h1, Items(config_scene), errx, erry)
         IN  IF scene_nb = "sgd"
             THEN \E errx_ref \in TAErrors, erry_ref \in TAErrors :
                    scene_heap' = offset_scene(h2, {psf_subtraction_source},
                                               errx_ref, erry_ref)
             ELSE scene_heap' = h2
    /\ scene_cell' = SceneAfter(scene_nb, scene_cell)
    /\ UNCHANGED <<scene_nb, config_scene, psf_subtraction_source, targetstar,
                   planetA, planetB, refstar>>
    /\ UNCHANGED <<qcvars, nbvars, sgdvars, inv>>

\* the reference: MIRI and NIRCam take the template's reference source,
\* give it a deep copy of the target's spectrum, its flux, its sed key, its
\* id (3 or 99) and a target acquisition error; the dither notebook sets
\* bandpass, flux and id 99 of the reference it named before
SceneReference ==
    /\ scene_cell = "reference"
    /\ LET r == psf_subtraction_source
       IN  /\ refstar' = r
           /\ IF scene_nb = "sgd"
              THEN LET h1 == SetNorm(scene_heap, r, "bandpass",
                                     "miri,imaging,f560w")
                       h2 == SetNorm(h1, r, "norm_flux", 108)
                   IN  scene_heap' = SetItem(h2, r, "id", 99)
              ELSE LET c == deepcopy_spectrum(scene_heap,
                                              scene_heap[targetstar].spectrum)
                       h1 == SetItem(c.heap, r, "spectrum", c.ref)
                       h2 == SetNorm(h1, r, "norm_flux",
                                     IF scene_nb = "miri" THEN 30 ELSE 90)
                       h3 == SetSed(h2, r, "key", "a3v")
                       h4 == SetItem(h3, r, "id",
                                     IF scene_nb = "miri" THEN 3 ELSE 99)
                   IN  \E errx_ref \in TAErrors, erry_ref \in TAErrors :
                         scene_heap' = offset_scene(h4, {r}, errx_ref,
                                                    erry_ref)
    /\ scene_cell' = SceneAfter(scene_nb, scene_cell)
    /\ UNCHANGED <<scene_nb, config_scene, psf_subtraction_source, targetstar,
                   planetA, planetB>>
    /\ UNCHANGED <<qcvars, nbvars, sgdvars, inv>>

SceneNext ==
    \/ SgdTarget
    \/ SgdCopies
    \/ SceneTarget
    \/ ScenePlanetA
    \/ ScenePlanetB
    \/ SceneOffset
    \/ SceneReference

SceneSpec == SceneInit /\ [][SceneNext]_vars

\* ---- ids and independence of the sources -------------------------------
\* what the claim reads of the target star: its id and its spectrum
TargetView ==
    [id |-> scene_heap[targetstar].id,
     normalization |-> scene_heap[NormRef(scene_heap, targetstar)],
     sed |-> scene_heap[SedRef(scene_heap, targetstar)]]

\* the steps that edit a companion or the reference
EditsOthers == scene_cell \in {"sgd_copies", "planetA", "planetB", "reference"}

\* the sources of the scene and the reference
AllSources == Items(config_scene) \cup {psf_subtraction_source}

IdsDistinct ==
    /\ Cardinality(AllSources) = Len(config_scene) + 1
    /\ \A a \in AllSources, b \in AllSources :
           a # b => scene_heap[a].id # scene_heap[b].id
    /\ scene_heap[config_scene[1]].id = 1
    /\ \A a \in Items(config_scene) : scene_heap[a].id >= 1

\* C29: once the scene of a notebook is built, the sources of config['scene']
\* and the reference have pairwise distinct ids and the ids of the scene
\* start at 1; and a step that edits a companion or the reference leaves the
\* target star's id, normalization (its flux included) and sed as they were.
C29_IdsAndTarget ==
    [][/\ (EditsOthers => TargetView' = TargetView)
       /\ (scene_cell' = "built" => IdsDistinct')]_vars

\* The NIRCam scene is built: three sources and the reference, the target
\* still an a5v star of flux 10.0 with id 1, planetA a blackbody of flux
\* 16.5, the reference an a3v star of flux 9.0.
C29_Witness ==
    /\ scene_nb = "nircam" /\ scene_cell = "built"
    /\ Len(config_scene) = 3
    /\ TargetView.id = 1
    /\ TargetView.normalization.norm_flux = 100
    /\ TargetView.sed.key = "a5v"
    /\ scene_heap[planetA].id = 2
    /\ scene_heap[NormRef(scene_heap, planetA)].norm_flux = 165
    /\ scene_heap[SedRef(scene_heap, planetA)].key = "none"
    /\ scene_heap[planetB].id = 3
    /\ scene_heap[refstar].id = 99
    /\ scene_heap[NormRef(scene_heap, refstar)].norm_flux = 90
    /\ scene_heap[SedRef(scene_heap, refstar)].key = "a3v"

====
